---- MODULE Spec2Model ----
(***************************************************************************)
(* Metadata-driven dynamic query engine of freshshop_be:                   *)
(*   AdvancedMetadataService  (metadata / capability caches, resolvePath)  *)
(*   ReflectionService        (error-swallowing facade over the former)    *)
(*   AdvancedQueryBuilderService (buildAdvancedQuery, executePaginated...) *)
(*   DynamicQueryBuilderService  (mapDynamicToAdvancedOptions)             *)
(*                                                                         *)
(* A dotted field "profile.address.city" is the sequence of its segments   *)
(* <<"profile","address","city">>; field.includes('.') is Len(field) > 1.  *)
(* An optional number (page?: number) is <<>> when undefined, <<n>> else.  *)
(***************************************************************************)
EXTENDS Integers, Sequences, FiniteSets, TLC

VARIABLES
    metadataCache,      \* Map<string, IEntityMetadata>
    capabilitiesCache,  \* Map<string, IQueryCapabilities>
    \* The caches are the only state that outlives a call.  The remaining
    \* variables hold the call that ran last, its arguments and its result.
    op,                 \* the operation that ran last
    ent,                \* its entity argument
    opts,               \* its options argument (AdvancedQueryOptions)
    outcome,            \* "none" | "returned" | "threw"
    qb,                 \* the SelectQueryBuilder it produced
    log,                \* output of AdvancedQueryBuilderService.logger, in order
    resolved,           \* result of resolvePath, << >> when another call ran
    path,               \* argument of resolvePath
    pager,              \* pagination block of the paginated result
    backend,            \* storage calls of the execution, in order
    ran,                \* extractions / capability derivations it completed
    validation,         \* result of validateFieldAccess, << >> otherwise
    request,            \* GET /users: the query string's parameters, the
                        \* options parsed from them and their validation
    calls,              \* getQueryCapabilities calls in progress, per caller
    counted,            \* BaseService.count: what it returned, << >> otherwise
    redis,              \* the key-value store behind RedisService
    clock,              \* the time in seconds, as the token signer reads it
    sessions,           \* TokenService calls in progress, per client
    issued,             \* refresh tokens the token service has returned
    spent               \* refresh tokens a successful refresh was given

vars == <<metadataCache, capabilitiesCache, op, ent, opts, outcome, qb, log,
          resolved, path, pager, backend, ran, validation, request,
          calls, counted, redis, clock, sessions, issued, spent>>

\* the variables of the other services, which a query operation leaves alone
tokenVars == <<redis, clock, sessions, issued, spent>>
otherVars == <<calls, counted, tokenVars>>

----------------------------------------------------------------------------
(* Bounds of the exploration *)

MaxFilters == 2
MaxPage == 2
MaxTotal == 3

----------------------------------------------------------------------------
(* The reflected schema: what Reflect.getMetadata('__entity__', entity)    *)
(* yields for each entity class.  "Ghost" carries no metadata.             *)

RegisteredEntities == {"User", "Profile", "Address"}
EntityClasses == RegisteredEntities \cup {"Ghost"}

Col(n, t, pk, nullable) ==
    [name |-> n, type |-> t, isPrimary |-> pk, isNullable |-> nullable]
Rel(n, target) == [name |-> n, target |-> target]

ReflectColumns(e) ==
    CASE e = "User"    -> << Col("id", "uuid", TRUE, FALSE),
                             Col("email", "varchar", FALSE, FALSE),
                             Col("displayName", "varchar", FALSE, TRUE),
                             Col("role", "varchar", FALSE, FALSE),
                             Col("createdAt", "timestamp", FALSE, FALSE),
                             Col("settings", "jsonb", FALSE, TRUE) >>
      [] e = "Profile" -> << Col("id", "uuid", TRUE, FALSE),
                             Col("bio", "text", FALSE, TRUE),
                             Col("verified", "boolean", FALSE, FALSE),
                             Col("updatedAt", "timestamp with time zone",
                                 FALSE, FALSE) >>
      [] e = "Address" -> << Col("city", "varchar", FALSE, TRUE) >>
      [] OTHER         -> << >>

ReflectRelations(e) ==
    CASE e = "User"    -> << Rel("profile", "Profile") >>
      [] e = "Profile" -> << Rel("address", "Address") >>
      [] OTHER         -> << >>

Range(s) == {s[i] : i \in 1..Len(s)}
Names(s) == {s[i].name : i \in 1..Len(s)}

----------------------------------------------------------------------------
(* AdvancedMetadataService *)

\* extractEntityMetadata throws when the class carries no '__entity__'
ExtractThrows(e) == e \notin RegisteredEntities

extractEntityMetadata(e) ==
    [name |-> e, columns |-> ReflectColumns(e), relations |-> ReflectRelations(e)]

\* getEntityMetadata: cache hit, or extraction (which may throw)
MetadataThrows(e) == e \notin DOMAIN metadataCache /\ ExtractThrows(e)

getEntityMetadata(e) ==
    IF e \in DOMAIN metadataCache THEN metadataCache[e]
    ELSE extractEntityMetadata(e)

SearchableTypes == {"varchar", "text", "char", "string", "nvarchar", "ntext",
                    "character varying"}
SortableTypes == {"varchar", "text", "char", "string", "int", "integer",
                  "bigint", "smallint", "decimal", "numeric", "float",
                  "double", "date", "datetime", "timestamp", "time",
                  "boolean", "bool"}

\* type.includes(t); the type names of the schema are lower-case already
Includes(type, t) ==
    \E i \in 1..(Len(type) - Len(t) + 1) : SubSeq(type, i, i + Len(t) - 1) = t

\* searchableTypes.some((t) => type.toLowerCase().includes(t))
isSearchableType(type) == \E t \in SearchableTypes : Includes(type, t)
isSortableType(type) == \E t \in SortableTypes : Includes(type, t)

DefaultLimit == 20
ColumnNames(s) == [i \in 1..Len(s) |-> s[i].name]
MaxLimit == 100

\* buildQueryCapabilities with the sortable test taken from the searchable one
buildQueryCapabilities_SortableAsSearchable(m) ==
    [searchable |-> ColumnNames(SelectSeq(m.columns,
                                 LAMBDA c: isSearchableType(c.type))),
     filterable |-> ColumnNames(m.columns),
     sortable   |-> ColumnNames(SelectSeq(m.columns,
                                 LAMBDA c: isSearchableType(c.type))),
     relations  |-> ColumnNames(m.relations),
     defaultLimit |-> DefaultLimit,
     maxLimit   |-> MaxLimit]

buildQueryCapabilities(m) ==
    [searchable |-> ColumnNames(SelectSeq(m.columns,
                                 LAMBDA c: isSearchableType(c.type))),
     filterable |-> ColumnNames(m.columns),
     sortable   |-> ColumnNames(SelectSeq(m.columns,
                                 LAMBDA c: isSortableType(c.type))),
     relations  |-> ColumnNames(m.relations),
     defaultLimit |-> DefaultLimit,
     maxLimit   |-> MaxLimit]

CapabilitiesThrows(e) == e \notin DOMAIN capabilitiesCache /\ MetadataThrows(e)

getQueryCapabilities(e) ==
    IF e \in DOMAIN capabilitiesCache THEN capabilitiesCache[e]
    ELSE buildQueryCapabilities(getEntityMetadata(e))

\* The caches after a call of getEntityMetadata / getQueryCapabilities
MetadataCacheAfter(mc, e) ==
    IF e \in DOMAIN mc \/ ExtractThrows(e) THEN mc
    ELSE [k \in DOMAIN mc \cup {e} |->
            IF k = e THEN extractEntityMetadata(e) ELSE mc[k]]

CapabilitiesCacheAfter(cc, mc, e) ==
    IF e \in DOMAIN cc \/ (e \notin DOMAIN mc /\ ExtractThrows(e)) THEN cc
    ELSE [k \in DOMAIN cc \cup {e} |->
            IF k = e
            THEN buildQueryCapabilities(IF e \in DOMAIN mc THEN mc[e]
                                        ELSE extractEntityMetadata(e))
            ELSE cc[k]]

getRelationsMap(e) == Names(getEntityMetadata(e).relations)
getFieldColumnMap(e) == Names(getEntityMetadata(e).columns)

NonEmptyParts(p) == SelectSeq(p, LAMBDA s: s # "")

NoField == << >>

\* resolveLoop without the isLast test: a column ends the walk as valid
RECURSIVE resolveLoop_NoLastCheck(_, _, _, _)
resolveLoop_NoLastCheck(current, parts, i, chain) ==
    IF i > Len(parts)
    THEN [valid |-> TRUE, relationChain |-> chain, finalField |-> NoField,
          errors |-> << >>]
    ELSE IF parts[i] \in getRelationsMap(current)
    THEN resolveLoop_NoLastCheck(current, parts, i + 1, Append(chain, parts[i]))
    ELSE IF parts[i] \in getFieldColumnMap(current)
    THEN [valid |-> TRUE, relationChain |-> chain,
          finalField |-> <<parts[i]>>, errors |-> << >>]
    ELSE [valid |-> FALSE, relationChain |-> chain, finalField |-> NoField,
          errors |-> << <<"not found", parts[i]>> >>]

\* The loop of resolvePath from index i on.  `current` is the entity whose
\* maps are consulted; the loop never reassigns it.
RECURSIVE resolveLoop(_, _, _, _)
resolveLoop(current, parts, i, chain) ==
    IF i > Len(parts)
    THEN [valid |-> TRUE, relationChain |-> chain, finalField |-> NoField,
          errors |-> << >>]
    ELSE IF parts[i] \in getRelationsMap(current)
    THEN resolveLoop(current, parts, i + 1, Append(chain, parts[i]))
    ELSE IF parts[i] \in getFieldColumnMap(current)
    THEN IF i # Len(parts)
         THEN [valid |-> FALSE, relationChain |-> chain,
               finalField |-> <<parts[i]>>,
               errors |-> << <<"cannot go deeper", parts[i]>> >>]
         ELSE [valid |-> TRUE, relationChain |-> chain,
               finalField |-> <<parts[i]>>, errors |-> << >>]
    ELSE [valid |-> FALSE, relationChain |-> chain, finalField |-> NoField,
          errors |-> << <<"not found", parts[i]>> >>]

\* AdvancedMetadataService.resolvePath; throws when the first lookup throws
MetadataResolveThrows(e, p) == NonEmptyParts(p) # << >> /\ MetadataThrows(e)
metadataResolvePath(e, p) == resolveLoop(e, NonEmptyParts(p), 1, << >>)

\* The service's caches threaded through the calls of one operation, with
\* the extractions and capability derivations completed on the way.
Event(kind, e) == [kind |-> kind, entity |-> e]
MetaService(mc, cc) == [mc |-> mc, cc |-> cc, ran |-> << >>, threw |-> FALSE]

\* getEntityMetadata without the cache test
getEntityMetadataIn_NoCacheCheck(M, e) ==
    IF ExtractThrows(e) THEN [M EXCEPT !.threw = TRUE]
    ELSE [M EXCEPT !.mc = [k \in DOMAIN M.mc \cup {e} |->
                             IF k = e THEN extractEntityMetadata(e) ELSE M.mc[k]],
                   !.ran = Append(@, Event("extract", e)),
                   !.threw = FALSE]

\* getEntityMetadata as a step on the caches
getEntityMetadataIn(M, e) ==
    IF e \in DOMAIN M.mc THEN [M EXCEPT !.threw = FALSE]
    ELSE IF ExtractThrows(e) THEN [M EXCEPT !.threw = TRUE]
    ELSE [M EXCEPT !.mc = MetadataCacheAfter(@, e),
                   !.ran = Append(@, Event("extract", e)),
                   !.threw = FALSE]

\* getQueryCapabilities as a step on the caches
getQueryCapabilitiesIn(M, e) ==
    IF e \in DOMAIN M.cc THEN [M EXCEPT !.threw = FALSE]
    ELSE LET afterMetadata(M1) ==
                IF M1.threw THEN M1
                ELSE [M1 EXCEPT !.cc = [k \in DOMAIN M1.cc \cup {e} |->
                                          IF k = e THEN buildQueryCapabilities(M1.mc[e])
                                          ELSE M1.cc[k]],
                                !.ran = Append(@, Event("derive", e))]
         IN  afterMetadata(getEntityMetadataIn(M, e))

RECURSIVE getEntityMetadataTimes(_, _, _)
getEntityMetadataTimes(M, e, n) ==
    IF n = 0 \/ M.threw THEN M
    ELSE getEntityMetadataTimes(getEntityMetadataIn(M, e), e, n - 1)

\* The getEntityMetadata calls of resolvePath: one per segment looked up
\* as a relation, one more for the segment looked up as a column.
resolvePathLookups(e, p) ==
    LET parts == NonEmptyParts(p)
        r == resolveLoop(e, parts, 1, << >>)
    IN  IF Len(r.relationChain) = Len(parts) THEN Len(parts)
        ELSE Len(r.relationChain) + 2

resolvePathIn(M, e, p) == getEntityMetadataTimes(M, e, resolvePathLookups(e, p))

KnownOperations == {"search", "filter", "sort", "select"}

Validation(ok, errors, warnings) ==
    [isValid |-> ok, errors |-> errors, warnings |-> warnings]

\* validateFieldAccess with the default case of the switch failing
validateFieldAccess_UnknownOperationFails(e, field, operation) ==
    IF CapabilitiesThrows(e)
    THEN Validation(FALSE, << <<"Validation failed", field>> >>, << >>)
    ELSE LET capabilities == getQueryCapabilities(e)
             found == SelectSeq(getEntityMetadata(e).columns,
                                LAMBDA c : c.name = field)
         IN  IF found = << >>
             THEN Validation(FALSE, << <<"does not exist", field>> >>, << >>)
             ELSE LET errors ==
                        CASE operation = "search"
                               /\ field \notin Range(capabilities.searchable)
                                 -> << <<"is not searchable", field>> >>
                          [] operation = "filter"
                               /\ field \notin Range(capabilities.filterable)
                                 -> << <<"is not filterable", field>> >>
                          [] operation = "sort"
                               /\ field \notin Range(capabilities.sortable)
                                 -> << <<"is not sortable", field>> >>
                          [] operation \notin KnownOperations
                                 -> << <<"Unknown operation", operation>> >>
                          [] OTHER -> << >>
                  IN  Validation(errors = << >>, errors, << >>)

\* AdvancedMetadataService.validateFieldAccess
validateFieldAccess(e, field, operation) ==
    IF CapabilitiesThrows(e)
    THEN Validation(FALSE, << <<"Validation failed", field>> >>, << >>)
    ELSE LET capabilities == getQueryCapabilities(e)
             found == SelectSeq(getEntityMetadata(e).columns,
                                LAMBDA c : c.name = field)
         IN  IF found = << >>
             THEN Validation(FALSE, << <<"does not exist", field>> >>, << >>)
             ELSE LET column == found[1]
                      errors ==
                        CASE operation = "search"
                               /\ field \notin Range(capabilities.searchable)
                                 -> << <<"is not searchable", field>> >>
                          [] operation = "filter"
                               /\ field \notin Range(capabilities.filterable)
                                 -> << <<"is not filterable", field>> >>
                          [] operation = "sort"
                               /\ field \notin Range(capabilities.sortable)
                                 -> << <<"is not sortable", field>> >>
                          [] OTHER -> << >>
                      unknown ==
                        IF operation \notin KnownOperations
                        THEN << <<"Unknown operation", operation>> >> ELSE << >>
                      primary ==
                        IF column.isPrimary
                        THEN << <<"is primary key", field>> >> ELSE << >>
                      notNullable ==
                        IF ~column.isNullable /\ operation = "filter"
                        THEN << <<"is not nullable", field>> >> ELSE << >>
                  IN  Validation(errors = << >>, errors,
                                 unknown \o primary \o notNullable)

\* the caches after validateFieldAccess: getQueryCapabilities, then
\* getEntityMetadata unless the former threw
validateFieldAccessIn(M, e) ==
    LET then(M1) == IF M1.threw THEN M1 ELSE getEntityMetadataIn(M1, e)
    IN  then(getQueryCapabilitiesIn(M, e))

----------------------------------------------------------------------------
(* ReflectionService *)

validateField(e, field, operation) ==
    IF CapabilitiesThrows(e) THEN FALSE
    ELSE CASE operation = "search" ->
                field \in Range(getQueryCapabilities(e).searchable)
           [] operation = "filter" ->
                field \in Range(getQueryCapabilities(e).filterable)
           [] operation = "sort" ->
                field \in Range(getQueryCapabilities(e).sortable)
           [] OTHER -> FALSE

resolvePath(e, p) ==
    IF MetadataResolveThrows(e, p)
    THEN [valid |-> FALSE, relationChain |-> << >>, finalField |-> NoField,
          errors |-> << <<"resolvePath error", "">> >>]
    ELSE metadataResolvePath(e, p)

----------------------------------------------------------------------------
(* The SelectQueryBuilder as AdvancedQueryBuilderService drives it.  Every *)
(* call the service makes on it is recorded in the order it is made.       *)

NotSet == << >>

createQueryBuilder ==
    [alias |-> "entity", selects |-> << >>, joins |-> << >>, wheres |-> << >>,
     orderBys |-> << >>, groupBys |-> << >>, havings |-> << >>,
     distinct |-> FALSE, cache |-> FALSE, lock |-> NotSet,
     skip |-> NotSet, take |-> NotSet]

\* `${value}` of a possibly undefined value
JsString(v) == IF v = << >> THEN "undefined" ELSE v[1]

Param(n, v) == [name |-> n, list |-> FALSE, val |-> v]
ListParam(n, vs) == [name |-> n, list |-> TRUE, val |-> vs]

Term(a, c, sql) == [alias |-> a, column |-> c, sql |-> sql]
Pred(a, c, operator, sql, ps) ==
    [terms |-> << Term(a, c, sql) >>, operator |-> operator, params |-> ps]

andWhere(q, w) == [q EXCEPT !.wheres = Append(@, w)]
having(q, w) == [q EXCEPT !.havings = << w >>]
addOrderBy(q, a, c, d) ==
    [q EXCEPT !.orderBys = Append(@, [alias |-> a, column |-> c, direction |-> d])]
addGroupBy(q, c) ==
    [q EXCEPT !.groupBys = Append(@, [alias |-> "entity", column |-> c])]
leftJoin(q, parent, property, a, select) ==
    [q EXCEPT !.joins = Append(@, [parent |-> parent, property |-> property,
                                   alias |-> a, select |-> select])]

\* this.logger.warn of AdvancedQueryBuilderService
Warn(S, msg, field, operator) ==
    [S EXCEPT !.log = Append(@, [msg |-> msg, field |-> field,
                                 operator |-> operator])]

\* ensureJoinsForPath with each alias taken from its own segment alone
RECURSIVE joinLoop_AliasIsSegment(_, _, _, _, _, _)
joinLoop_AliasIsSegment(q, parts, i, currentAlias, builtPath, select) ==
    IF i > Len(parts)
    THEN [qb |-> q, alias |-> IF currentAlias = "" THEN "entity" ELSE currentAlias]
    ELSE joinLoop_AliasIsSegment(leftJoin(q, currentAlias, parts[i], parts[i], select),
                                 parts, i + 1, parts[i], parts[i], select)

\* ensureJoinsForPath: one join call per non-empty segment
RECURSIVE joinLoop(_, _, _, _, _, _)
joinLoop(q, parts, i, currentAlias, builtPath, select) ==
    IF i > Len(parts)
    THEN [qb |-> q, alias |-> IF currentAlias = "" THEN "entity" ELSE currentAlias]
    ELSE LET part == parts[i]
             nextAlias == IF builtPath # "" THEN builtPath \o "_" \o part
                          ELSE part
         IN  joinLoop(leftJoin(q, currentAlias, part, nextAlias, select),
                      parts, i + 1, nextAlias, nextAlias, select)

ensureJoinsForPath(q, p, select) ==
    joinLoop(q, NonEmptyParts(p), 1, "entity", "", select)

Front(s) == SubSeq(s, 1, Len(s) - 1)

\* applySelect
applySelect(S, select) ==
    LET S1 == IF Len(select.fields) > 0
              THEN [S EXCEPT !.qb.selects =
                      [i \in 1..Len(select.fields) |->
                          [alias |-> "entity", column |-> select.fields[i]]]]
              ELSE S
    IN  IF Len(select.exclude) > 0
        THEN Warn(S1, "Exclude fields not fully supported", << >>, "")
        ELSE S1

\* applyRelations
RECURSIVE applyRelationsFrom(_, _, _)
applyRelationsFrom(S, relations, i) ==
    IF i > Len(relations.relations) THEN S
    ELSE applyRelationsFrom(
            [S EXCEPT !.qb = ensureJoinsForPath(S.qb, relations.relations[i],
                                                relations.eager).qb],
            relations, i + 1)

applyRelations(S, relations) == applyRelationsFrom(S, relations, 1)

\* The operator switch of applyFilters
filterSwitch(S, a, c, f, paramName) ==
    LET o == f.operator
        one(sql, v) == [S EXCEPT !.qb =
                          andWhere(@, Pred(a, c, o, sql, << Param(paramName, v) >>))]
        many(sql) == [S EXCEPT !.qb =
                        andWhere(@, Pred(a, c, o, sql,
                            << ListParam(paramName,
                                 IF f.values # << >> THEN f.values[1]
                                 ELSE << JsString(f.value) >>) >>))]
        none(sql) == [S EXCEPT !.qb = andWhere(@, Pred(a, c, o, sql, << >>))]
        range == IF f.values # << >> /\ Len(f.values[1]) = 2
                 THEN [S EXCEPT !.qb =
                         andWhere(@, Pred(a, c, o, "BETWEEN",
                            << Param(paramName \o "_start", << f.values[1][1] >>),
                               Param(paramName \o "_end", << f.values[1][2] >>) >>))]
                 ELSE S
    IN  CASE o = "eq"  -> one("=", f.value)
          [] o = "ne"  -> one("!=", f.value)
          [] o = "gt"  -> one(">", f.value)
          [] o = "gte" -> one(">=", f.value)
          [] o = "lt"  -> one("<", f.value)
          [] o = "lte" -> one("<=", f.value)
          [] o = "in"  -> many("IN")
          [] o = "nin" -> many("NOT IN")
          [] o = "like"  -> one("LIKE", << "%" \o JsString(f.value) \o "%" >>)
          [] o = "ilike" -> one("ILIKE", << "%" \o JsString(f.value) \o "%" >>)
          [] o = "between" -> range
          [] o = "isNull" -> none("IS NULL")
          [] o = "isNotNull" -> none("IS NOT NULL")
          [] o = "contains" -> one("ILIKE", << "%" \o JsString(f.value) \o "%" >>)
          [] o = "startsWith" -> one("ILIKE", << JsString(f.value) \o "%" >>)
          [] o = "endsWith" -> one("ILIKE", << "%" \o JsString(f.value) >>)
          [] o = "regex" -> one("~", f.value)
          [] o = "dateRange" -> range
          [] OTHER -> Warn(S, "Unsupported filter operator", f.field, o)

\* applyFilter without the filterable check of plain fields
applyFilter_NoValidation(S, e, f, index) ==
    LET paramName == "filter_" \o ToString(index)
        dotted == Len(f.field) > 1
        res == resolvePath(e, f.field)
    IN  IF dotted
        THEN IF ~res.valid \/ res.finalField = NoField
             THEN Warn(S, "Invalid filter path", f.field, f.operator)
             ELSE LET j == ensureJoinsForPath(S.qb, Front(f.field), FALSE)
                  IN  filterSwitch([S EXCEPT !.qb = j.qb], j.alias,
                                   res.finalField[1], f, paramName)
        ELSE filterSwitch(S, "entity", f.field[1], f, paramName)

\* One iteration of the forEach of applyFilters; index is the 0-based
\* position of the condition in the list.
applyFilter(S, e, f, index) ==
    LET paramName == "filter_" \o ToString(index)
        dotted == Len(f.field) > 1
        res == resolvePath(e, f.field)
    IN  IF dotted
        THEN IF ~res.valid \/ res.finalField = NoField
             THEN Warn(S, "Invalid filter path", f.field, f.operator)
             ELSE LET j == ensureJoinsForPath(S.qb, Front(f.field), FALSE)
                  IN  filterSwitch([S EXCEPT !.qb = j.qb], j.alias,
                                   res.finalField[1], f, paramName)
        ELSE IF ~validateField(e, f.field[1], "filter")
             THEN Warn(S, "Field is not filterable", f.field, f.operator)
             ELSE filterSwitch(S, "entity", f.field[1], f, paramName)

RECURSIVE applyFiltersFrom(_, _, _, _)
applyFiltersFrom(S, e, filters, i) ==
    IF i > Len(filters) THEN S
    ELSE applyFiltersFrom(applyFilter(S, e, filters[i], i - 1), e, filters, i + 1)

applyFilters(S, e, filters) == applyFiltersFrom(S, e, filters, 1)

\* applySearch
RECURSIVE searchConditionsFrom(_, _, _, _, _)
searchConditionsFrom(S, e, search, i, conds) ==
    IF i > Len(search.fields) THEN [qb |-> S.qb, log |-> S.log, conds |-> conds]
    ELSE LET field == search.fields[i]
             dotted == Len(field) > 1
             res == resolvePath(e, field)
             sql == IF search.caseSensitive THEN "LIKE" ELSE "ILIKE"
         IN  IF dotted
             THEN IF ~res.valid \/ res.finalField = NoField
                  THEN searchConditionsFrom(S, e, search, i + 1, conds)
                  ELSE LET j == ensureJoinsForPath(S.qb, Front(field), FALSE)
                       IN  searchConditionsFrom([S EXCEPT !.qb = j.qb], e, search,
                              i + 1,
                              Append(conds, Term(j.alias, res.finalField[1], sql)))
             ELSE IF ~validateField(e, field[1], "search")
                  THEN searchConditionsFrom(S, e, search, i + 1, conds)
                  ELSE searchConditionsFrom(S, e, search, i + 1,
                          Append(conds, Term("entity", field[1], sql)))

applySearch(S, e, search) ==
    IF search.query = "" \/ Len(search.fields) = 0 THEN S
    ELSE LET r == searchConditionsFrom(S, e, search, 1, << >>)
             S1 == [S EXCEPT !.qb = r.qb, !.log = r.log]
         IN  IF Len(r.conds) > 0
             THEN [S1 EXCEPT !.qb = andWhere(@,
                     [terms |-> r.conds, operator |-> "search",
                      params |-> << Param("searchQuery",
                          << IF search.mode = "exact" THEN search.query
                             ELSE "%" \o search.query \o "%" >>) >>])]
             ELSE S1

\* applySorting
\* applySort ordering every accepted field ascending
applySort_AlwaysAsc(S, e, srt) ==
    LET dotted == Len(srt.field) > 1
        res == resolvePath(e, srt.field)
    IN  IF dotted
        THEN IF ~res.valid \/ res.finalField = NoField
             THEN Warn(S, "Invalid sort path", srt.field, "")
             ELSE LET j == ensureJoinsForPath(S.qb, Front(srt.field), FALSE)
                  IN  [S EXCEPT !.qb = addOrderBy(j.qb, j.alias,
                                                  res.finalField[1], "ASC")]
        ELSE IF ~validateField(e, srt.field[1], "sort")
             THEN Warn(S, "Field is not sortable", srt.field, "")
             ELSE [S EXCEPT !.qb = addOrderBy(@, "entity", srt.field[1], "ASC")]

\* One iteration of the forEach of applySorting
applySort(S, e, srt) ==
    LET dotted == Len(srt.field) > 1
        res == resolvePath(e, srt.field)
    IN  IF dotted
        THEN IF ~res.valid \/ res.finalField = NoField
             THEN Warn(S, "Invalid sort path", srt.field, "")
             ELSE LET j == ensureJoinsForPath(S.qb, Front(srt.field), FALSE)
                  IN  [S EXCEPT !.qb = addOrderBy(j.qb, j.alias,
                                                  res.finalField[1], srt.direction)]
        ELSE IF ~validateField(e, srt.field[1], "sort")
             THEN Warn(S, "Field is not sortable", srt.field, "")
             ELSE [S EXCEPT !.qb = addOrderBy(@, "entity", srt.field[1],
                                              srt.direction)]

RECURSIVE applySortingFrom(_, _, _, _)
applySortingFrom(S, e, sort, i) ==
    IF i > Len(sort) THEN S
    ELSE applySortingFrom(applySort(S, e, sort[i]), e, sort, i + 1)

applySorting(S, e, sort) == applySortingFrom(S, e, sort, 1)

\* applyGroupBy
RECURSIVE applyGroupByFrom(_, _, _)
applyGroupByFrom(S, groupBy, i) ==
    IF i > Len(groupBy) THEN S
    ELSE applyGroupByFrom([S EXCEPT !.qb = addGroupBy(@, groupBy[i])],
                          groupBy, i + 1)

applyGroupBy(S, groupBy) == applyGroupByFrom(S, groupBy, 1)

\* applyHaving
havingSwitch(S, a, c, h, paramName) ==
    LET o == h.operator
        one(sql) == [S EXCEPT !.qb =
                       having(@, Pred(a, c, o, sql, << Param(paramName, h.value) >>))]
    IN  CASE o = "eq"  -> one("=")
          [] o = "gt"  -> one(">")
          [] o = "gte" -> one(">=")
          [] o = "lt"  -> one("<")
          [] o = "lte" -> one("<=")
          [] OTHER -> Warn(S, "Unsupported having operator", h.field, o)

applyHavingOne(S, e, h, index) ==
    LET paramName == "having_" \o ToString(index)
        dotted == Len(h.field) > 1
        res == resolvePath(e, h.field)
    IN  IF dotted
        THEN IF ~res.valid \/ res.finalField = NoField THEN S
             ELSE LET j == ensureJoinsForPath(S.qb, Front(h.field), FALSE)
                  IN  havingSwitch([S EXCEPT !.qb = j.qb], j.alias,
                                   res.finalField[1], h, paramName)
        ELSE havingSwitch(S, "entity", h.field[1], h, paramName)

RECURSIVE applyHavingFrom(_, _, _, _)
applyHavingFrom(S, e, hs, i) ==
    IF i > Len(hs) THEN S
    ELSE applyHavingFrom(applyHavingOne(S, e, hs[i], i - 1), e, hs, i + 1)

applyHaving(S, e, hs) == applyHavingFrom(S, e, hs, 1)

\* buildAdvancedQuery: the builder it returns and what it logged.  No step
\* of it throws: ReflectionService catches what the metadata service throws.
buildAdvancedQuery(e, o) ==
    LET S0 == [qb |-> createQueryBuilder, log |-> << >>]
        ifSelect(S) == IF Len(o.select.fields) > 0
                       THEN applySelect(S, o.select) ELSE S
        ifRelations(S) == IF Len(o.relations.relations) > 0
                          THEN applyRelations(S, o.relations) ELSE S
        ifFilters(S) == IF Len(o.filters) > 0
                        THEN applyFilters(S, e, o.filters) ELSE S
        ifSearch(S) == IF o.search.query # "" THEN applySearch(S, e, o.search)
                       ELSE S
        ifSort(S) == IF Len(o.sort) > 0 THEN applySorting(S, e, o.sort) ELSE S
        ifGroupBy(S) == IF Len(o.groupBy) > 0 THEN applyGroupBy(S, o.groupBy)
                        ELSE S
        ifHaving(S) == IF Len(o.having) > 0 THEN applyHaving(S, e, o.having)
                       ELSE S
        ifDistinct(S) == IF o.distinct THEN [S EXCEPT !.qb.distinct = TRUE] ELSE S
        ifCache(S) == IF o.cache THEN [S EXCEPT !.qb.cache = TRUE] ELSE S
        ifLock(S) == IF o.lock # NotSet THEN [S EXCEPT !.qb.lock = o.lock] ELSE S
    IN  ifLock(ifCache(ifDistinct(ifHaving(ifGroupBy(ifSort(ifSearch(
            ifFilters(ifRelations(ifSelect(S0))))))))))

----------------------------------------------------------------------------
(* Execution *)

\* Math.ceil(total / limit) for total >= 0; division by zero gives
\* Infinity (total > 0) or NaN (total = 0).
CeilDiv(total, limit) ==
    IF limit > 0 THEN [kind |-> "finite", n |-> (total + limit - 1) \div limit]
    ELSE IF limit < 0 THEN [kind |-> "finite", n |-> 0 - (total \div (0 - limit))]
    ELSE IF total > 0 THEN [kind |-> "Infinity", n |-> 0]
    ELSE [kind |-> "NaN", n |-> 0]

\* page < totalPages
LessThanPages(page, tp) ==
    CASE tp.kind = "finite" -> page < tp.n
      [] tp.kind = "Infinity" -> TRUE
      [] OTHER -> FALSE

DefaultPage == 1
DefaultPaginatedLimit == 10

PageOf(o) == IF o.pagination.page = NotSet THEN DefaultPage
             ELSE o.pagination.page[1]
LimitOf(o) == IF o.pagination.limit = NotSet THEN DefaultPaginatedLimit
              ELSE o.pagination.limit[1]
OffsetOf(o) == (PageOf(o) - 1) * LimitOf(o)

\* paginationBlock with Math.floor in place of Math.ceil
paginationBlock_Floor(o, total) ==
    LET page == PageOf(o)
        limit == LimitOf(o)
        totalPages == IF limit > 0 THEN [kind |-> "finite", n |-> total \div limit]
                      ELSE CeilDiv(total, limit)
    IN  [page |-> page, limit |-> limit, total |-> total,
         totalPages |-> totalPages,
         hasNext |-> LessThanPages(page, totalPages),
         hasPrev |-> page > 1,
         offset |-> OffsetOf(o)]

\* The pagination block of executePaginatedQuery
paginationBlock(o, total) ==
    LET page == PageOf(o)
        limit == LimitOf(o)
        totalPages == CeilDiv(total, limit)
    IN  [page |-> page, limit |-> limit, total |-> total,
         totalPages |-> totalPages,
         hasNext |-> LessThanPages(page, totalPages),
         hasPrev |-> page > 1,
         offset |-> OffsetOf(o)]

\* Which cache entries a build creates: validateField is reached for every
\* plain filter, search and sort field, resolvePath for every dotted one.
PlainIn(fs) == \E i \in 1..Len(fs) : Len(fs[i].field) = 1
DottedIn(fs) == \E i \in 1..Len(fs) :
                    Len(fs[i].field) > 1 /\ NonEmptyParts(fs[i].field) # << >>
SearchFields(o) == IF o.search.query # "" THEN o.search.fields ELSE << >>
AsFields(paths) == [i \in 1..Len(paths) |-> [field |-> paths[i]]]

CallsValidateField(o) ==
    PlainIn(o.filters) \/ PlainIn(o.sort) \/ PlainIn(AsFields(SearchFields(o)))
CallsResolvePath(o) ==
    DottedIn(o.filters) \/ DottedIn(o.sort) \/ DottedIn(o.having)
        \/ DottedIn(AsFields(SearchFields(o)))

MetadataCacheAfterBuild(e, o) ==
    IF CallsResolvePath(o) \/ (CallsValidateField(o) /\ e \notin DOMAIN capabilitiesCache)
    THEN MetadataCacheAfter(metadataCache, e) ELSE metadataCache

CapabilitiesCacheAfterBuild(e, o) ==
    IF CallsValidateField(o)
    THEN CapabilitiesCacheAfter(capabilitiesCache, metadataCache, e)
    ELSE capabilitiesCache

\* The extractions and derivations a build completes
buildIn(M, e, o) ==
    LET viaPaths(M1) == IF CallsResolvePath(o) THEN getEntityMetadataIn(M1, e)
                        ELSE M1
        viaFields(M1) == IF CallsValidateField(o)
                         THEN getQueryCapabilitiesIn(M1, e) ELSE M1
    IN  viaFields(viaPaths(M))

\* DynamicQueryBuilderService.mapDynamicToAdvancedOptions
NoSearch == [query |-> "", fields |-> << >>, mode |-> "partial",
             caseSensitive |-> FALSE]
NoPagination == [present |-> FALSE, page |-> NotSet, limit |-> NotSet]
Min(a, b) == IF a < b THEN a ELSE b
DynamicLimitCap == 100

mapDynamicToAdvancedOptions(d, withPagination) ==
    [select |-> IF Len(d.select) > 0
                THEN [fields |-> d.select, exclude |-> d.exclude]
                ELSE [fields |-> << >>, exclude |-> << >>],
     relations |-> IF Len(d.include) > 0
                   THEN [relations |-> d.include, eager |-> TRUE]
                   ELSE [relations |-> << >>, eager |-> FALSE],
     filters |-> [i \in 1..Len(d.filters) |->
                    [field |-> d.filters[i].field,
                     operator |-> IF d.filters[i].operator = NotSet THEN "eq"
                                  ELSE d.filters[i].operator[1],
                     value |-> IF d.filters[i].isArray THEN NotSet
                               ELSE d.filters[i].value,
                     values |-> IF d.filters[i].isArray
                                THEN << d.filters[i].value >> ELSE NotSet]],
     search |-> IF d.search.query # ""
                THEN [query |-> d.search.query, fields |-> d.search.fields,
                      mode |-> "partial", caseSensitive |-> FALSE]
                ELSE NoSearch,
     sort |-> [i \in 1..Len(d.sort) |->
                 [field |-> d.sort[i].field,
                  direction |-> IF d.sort[i].direction = NotSet THEN "ASC"
                                ELSE d.sort[i].direction[1]]],
     groupBy |-> << >>, having |-> << >>, distinct |-> FALSE, cache |-> FALSE,
     lock |-> NotSet,
     pagination |->
        IF withPagination
        THEN [present |-> TRUE,
              page |-> << IF d.page = NotSet \/ d.page = <<0>> THEN 1
                          ELSE d.page[1] >>,
              limit |-> << Min(IF d.limit = NotSet \/ d.limit = <<0>> THEN 20
                               ELSE d.limit[1], DynamicLimitCap) >>]
        ELSE NoPagination]

----------------------------------------------------------------------------
(* UsersController.parseQueryToOptions and the string functions it uses.   *)
(* A query parameter is << >> when absent and << s >> when it is string s. *)

CharAt(s, i) == SubSeq(s, i, i)

\* String.prototype.split(sep) for a one-character separator
RECURSIVE Split(_, _)
Split(s, sep) ==
    LET hits == { i \in 1..Len(s) : CharAt(s, i) = sep }
    IN  IF hits = {} THEN << s >>
        ELSE LET i == CHOOSE k \in hits : \A m \in hits : k <= m
             IN  << SubSeq(s, 1, i - 1) >> \o Split(SubSeq(s, i + 1, Len(s)), sep)

\* String.prototype.trim (the whitespace that occurs here is the blank)
RECURSIVE TrimStart(_)
TrimStart(s) ==
    IF Len(s) > 0 /\ CharAt(s, 1) = " " THEN TrimStart(SubSeq(s, 2, Len(s)))
    ELSE s

RECURSIVE TrimEnd(_)
TrimEnd(s) ==
    IF Len(s) > 0 /\ CharAt(s, Len(s)) = " "
    THEN TrimEnd(SubSeq(s, 1, Len(s) - 1)) ELSE s

Trim(s) == TrimEnd(TrimStart(s))

LowerCaseLetters == "abcdefghijklmnopqrstuvwxyz"
UpperCaseLetters == "ABCDEFGHIJKLMNOPQRSTUVWXYZ"

\* String.prototype.toUpperCase
RECURSIVE ToUpperCase(_)
ToUpperCase(s) ==
    IF Len(s) = 0 THEN s
    ELSE LET c == CharAt(s, 1)
             at == { i \in 1..Len(LowerCaseLetters) : CharAt(LowerCaseLetters, i) = c }
         IN  (IF at = {} THEN c ELSE CharAt(UpperCaseLetters, CHOOSE i \in at : TRUE))
                 \o ToUpperCase(SubSeq(s, 2, Len(s)))

DecimalDigits == "0123456789"
IsDigit(c) == \E i \in 1..Len(DecimalDigits) : CharAt(DecimalDigits, i) = c
DigitValue(c) ==
    (CHOOSE i \in 1..Len(DecimalDigits) : CharAt(DecimalDigits, i) = c) - 1

\* the value of the longest prefix of digits of s, given the value so far
RECURSIVE DigitsValue(_, _)
DigitsValue(s, acc) ==
    IF Len(s) = 0 \/ ~IsDigit(CharAt(s, 1)) THEN acc
    ELSE DigitsValue(SubSeq(s, 2, Len(s)), acc * 10 + DigitValue(CharAt(s, 1)))

\* toInt: parseInt(val, 10), undefined unless finite.  parseInt skips
\* leading whitespace, reads a sign and the digits that follow, and is
\* NaN when there is no digit; an absent parameter is NaN too.
toInt(val) ==
    IF val = << >> THEN << >>
    ELSE LET t == TrimStart(val[1])
             signed == Len(t) > 0 /\ CharAt(t, 1) \in {"-", "+"}
             digits == IF signed THEN SubSeq(t, 2, Len(t)) ELSE t
         IN  IF Len(digits) = 0 \/ ~IsDigit(CharAt(digits, 1)) THEN << >>
             ELSE IF signed /\ CharAt(t, 1) = "-"
                  THEN << 0 - DigitsValue(digits, 0) >>
                  ELSE << DigitsValue(digits, 0) >>

ControllerMaxLimit == 100

clampLimit(val) ==
    IF toInt(val) = << >> THEN << >>
    ELSE << Min(toInt(val)[1], ControllerMaxLimit) >>

\* a field or relation name as the builder reads it: field.split('.')
Segments(name) == Split(name, ".")

\* the entries of a comma-separated list, trimmed, the empty ones left out
CommaList(s) ==
    SelectSeq([i \in 1..Len(Split(s, ",")) |-> Trim(Split(s, ",")[i])],
              LAMBDA x : Len(x) > 0)

\* the element of a destructured split, << >> when the array is shorter
PartAt(parts, i) == IF i <= Len(parts) THEN << parts[i] >> ELSE << >>
Truthy(part) == part # << >> /\ Len(part[1]) > 0

GivenText(param) == param # << >> /\ Len(Trim(param[1])) > 0

DefaultSearchFields == << <<"email">>, <<"displayName">> >>

\* the sort branch of parseQueryToOptions
parseSort(param) ==
    IF ~GivenText(param) THEN << >>
    ELSE LET parts == Split(param[1], ":")
             field == Trim(parts[1])
             dirRaw == PartAt(parts, 2)
             direction == ToUpperCase(IF Truthy(dirRaw) THEN dirRaw[1] ELSE "ASC")
         IN  IF Len(field) = 0 THEN << >>
             ELSE << [field |-> Segments(field),
                      direction |-> << IF direction = "DESC" THEN "DESC"
                                       ELSE "ASC" >>] >>

\* the filter branch of parseQueryToOptions:
\* const [field, operator, value] = filterInput.split(':')
parseFilter(param) ==
    IF ~GivenText(param) THEN << >>
    ELSE LET parts == Split(param[1], ":")
             field == PartAt(parts, 1)
             operator == PartAt(parts, 2)
             value == PartAt(parts, 3)
         IN  IF ~(Truthy(field) /\ Truthy(operator)) THEN << >>
             ELSE << [field |-> Segments(Trim(field[1])),
                      operator |-> operator,
                      isArray |-> FALSE,
                      value |-> << Trim(IF value = << >> THEN operator[1]
                                        ELSE value[1]) >>] >>

\* UsersController.parseQueryToOptions
parseQueryToOptions(query) ==
    [page |-> toInt(query.page),
     limit |-> clampLimit(query.limit),
     search |-> IF GivenText(query.search)
                THEN [query |-> Trim(query.search[1]), fields |-> DefaultSearchFields]
                ELSE [query |-> "", fields |-> << >>],
     sort |-> parseSort(query.sort),
     filters |-> parseFilter(query.filter),
     include |-> IF GivenText(query.include)
                 THEN [i \in 1..Len(CommaList(query.include[1])) |->
                          Segments(CommaList(query.include[1])[i])]
                 ELSE << >>,
     select |-> IF GivenText(query.select) THEN CommaList(query.select[1])
                ELSE << >>,
     exclude |-> << >>]

----------------------------------------------------------------------------
(* DynamicQueryBuilderService.validateQueryOptions *)

\* ReflectionService.getDefaultConfig
getDefaultConfig ==
    [searchable |-> << >>, filterable |-> << >>, sortable |-> << >>,
     relations |-> << >>, defaultLimit |-> DefaultLimit, maxLimit |-> MaxLimit]

\* ReflectionService.getQueryConfig: the capabilities, or the default
\* configuration when the metadata service throws
getQueryConfig(e) ==
    IF CapabilitiesThrows(e) THEN getDefaultConfig ELSE getQueryCapabilities(e)

\* list.includes(name) for a name held as its '.'-separated segments: the
\* names of the list are single segments
IncludesName(list, name) == Len(name) = 1 /\ name[1] \in Range(list)

\* the errors pushed for the entries of one list, in order
RECURSIVE ErrorsOf(_, _, _, _)
ErrorsOf(kind, names, allowed, i) ==
    IF i > Len(names) THEN << >>
    ELSE (IF IncludesName(allowed, names[i]) THEN << >>
          ELSE << <<kind, i - 1, names[i]>> >>)
             \o ErrorsOf(kind, names, allowed, i + 1)

\* validateQueryOptions without the test of the search fields
validateQueryOptions_SearchUnchecked(e, d) ==
    LET availableFields == getQueryConfig(e)
        errors ==
            ErrorsOf("is not filterable",
                     [i \in 1..Len(d.filters) |-> d.filters[i].field],
                     availableFields.filterable, 1)
            \o ErrorsOf("is not sortable",
                        [i \in 1..Len(d.sort) |-> d.sort[i].field],
                        availableFields.sortable, 1)
            \o ErrorsOf("does not exist", d.include,
                        availableFields.relations, 1)
    IN  [isValid |-> Len(errors) = 0, errors |-> errors]

validateQueryOptions(e, d) ==
    LET availableFields == getQueryConfig(e)
        errors ==
            ErrorsOf("is not filterable",
                     [i \in 1..Len(d.filters) |-> d.filters[i].field],
                     availableFields.filterable, 1)
            \o ErrorsOf("is not searchable", d.search.fields,
                        availableFields.searchable, 1)
            \o ErrorsOf("is not sortable",
                        [i \in 1..Len(d.sort) |-> d.sort[i].field],
                        availableFields.sortable, 1)
            \o ErrorsOf("does not exist", d.include,
                        availableFields.relations, 1)
    IN  [isValid |-> Len(errors) = 0, errors |-> errors]

----------------------------------------------------------------------------
(* Inputs *)

F(field, operator, value, values) ==
    [field |-> field, operator |-> operator, value |-> value, values |-> values]

\* Filter conditions a caller may pass: plain and dotted fields, known and
\* unknown ones, every arity of the range operators.
FilterPool ==
    { F(<<"role">>, "eq", <<"admin">>, NotSet),
      F(<<"xyz">>, "eq", <<"a">>, NotSet),
      F(<<"createdAt">>, "between", NotSet, << <<"a", "b">> >>),
      F(<<"createdAt">>, "between", NotSet, << <<"a">> >>),
      F(<<"profile", "id">>, "eq", <<"a">>, NotSet),
      F(<<"profile", "bio">>, "eq", <<"a">>, NotSet) }

\* Further lists, for the operators and paths the pool leaves out
ExtraFilterLists ==
    { << F(<<"role">>, "matches", <<"a">>, NotSet),
         F(<<"role">>, "eq", <<"admin">>, NotSet) >>,
      << F(<<"createdAt">>, "dateRange", NotSet, << <<"a", "b", "b">> >>),
         F(<<"role">>, "eq", <<"admin">>, NotSet) >>,
      << F(<<"email">>, "like", <<"a">>, NotSet),
         F(<<"role">>, "in", NotSet, << <<"a", "b">> >>) >>,
      << F(<<"settings">>, "isNull", NotSet, NotSet),
         F(<<"role">>, "nin", <<"a">>, NotSet) >>,
      << F(<<"createdAt">>, "between", <<"a">>, NotSet),
         F(<<"createdAt">>, "dateRange", NotSet, << <<"a", "b">> >>) >>,
      << F(<<"profile", "email">>, "eq", <<"a">>, NotSet),
         F(<<"profile", "id">>, "ne", <<"b">>, NotSet) >>,
      << F(<<"profile", "address", "city">>, "eq", <<"a">>, NotSet) >>,
      << F(<<"profile", "xyz">>, "eq", <<"a">>, NotSet),
         F(<<"role">>, "ne", <<"b">>, NotSet) >>,
      << F(<<"email", "city">>, "eq", <<"a">>, NotSet),
         F(<<"email">>, "startsWith", <<"a">>, NotSet) >>,
      << F(<<"profile", "id">>, "between", NotSet, << <<"a">> >>),
         F(<<"role">>, "eq", <<"admin">>, NotSet) >>,
      << F(<<"profile", "id">>, "matches", <<"a">>, NotSet) >> }

RECURSIVE SeqsUpTo(_, _)
SeqsUpTo(S, n) ==
    IF n = 0 THEN { << >> }
    ELSE LET shorter == SeqsUpTo(S, n - 1)
         IN  shorter \cup { Append(q, x) : q \in shorter, x \in S }

FilterLists == SeqsUpTo(FilterPool, MaxFilters) \cup ExtraFilterLists

RelationLists == { << <<"profile">> >>,
                   << <<"profile">>, <<"profile", "address">> >>,
                   << <<"profile_address">>, <<"profile", "address">> >>,
                   << <<"entity">>, <<"orders">> >> }

SortLists == { << >>,
               << [field |-> <<"createdAt">>, direction |-> "DESC"] >>,
               << [field |-> <<"settings">>, direction |-> "ASC"],
                  [field |-> <<"profile", "id">>, direction |-> "ASC"] >>,
               << [field |-> <<"createdAt">>, direction |-> "DESC"],
                  [field |-> <<"profile", "bio">>, direction |-> "DESC"],
                  [field |-> <<"xyz">>, direction |-> "ASC"],
                  [field |-> <<"email">>, direction |-> "ASC"] >> }

SearchSpecs == { NoSearch,
                 [query |-> "john", fields |-> << <<"email">>, <<"createdAt">>,
                                                 <<"profile", "id">> >>,
                  mode |-> "partial", caseSensitive |-> FALSE],
                 [query |-> "john", fields |-> << <<"role">>, <<"profile", "bio">>,
                                                 <<"email">> >>,
                  mode |-> "exact", caseSensitive |-> TRUE],
                 [query |-> "john", fields |-> << <<"createdAt">>, <<"xyz">> >>,
                  mode |-> "partial", caseSensitive |-> FALSE] }

HavingLists == { << >>,
                 << F(<<"role">>, "gt", <<"a">>, NotSet),
                    F(<<"profile", "id">>, "eq", <<"b">>, NotSet) >>,
                 << F(<<"profile", "id">>, "like", <<"b">>, NotSet) >>,
                 << F(<<"xyz">>, "lt", <<"a">>, NotSet) >> }

Options(filters, relations, sort, search, hv, pagination) ==
    [select |-> [fields |-> << >>, exclude |-> << >>],
     relations |-> [relations |-> relations, eager |-> FALSE],
     filters |-> filters, search |-> search, sort |-> sort,
     groupBy |-> << >>, having |-> hv, distinct |-> FALSE,
     cache |-> FALSE, lock |-> NotSet, pagination |-> pagination]

EmptyOptions == Options(<< >>, << >>, << >>, NoSearch, << >>, NoPagination)

JoinFilterLists == { << >>, << F(<<"profile", "id">>, "eq", <<"a">>, NotSet) >>,
                     << F(<<"role">>, "eq", <<"admin">>, NotSet) >>,
                     << F(<<"profile", "profile", "id">>, "eq", <<"a">>, NotSet) >> }
SelectSpecs == { [fields |-> << >>, exclude |-> << >>],
                 [fields |-> <<"id", "nope">>, exclude |-> <<"role">>] }
GroupByLists == { << >>, <<"role", "nope">> }
FewFilterLists == { << >>, << F(<<"role">>, "eq", <<"admin">>, NotSet) >>,
                    << F(<<"xyz">>, "eq", <<"a">>, NotSet) >> }

FewSortLists == { << >>,
                  << [field |-> <<"settings">>, direction |-> "ASC"],
                     [field |-> <<"profile", "id">>, direction |-> "ASC"] >> }
FewSearchSpecs == { NoSearch,
                    [query |-> "john", fields |-> << <<"email">>, <<"createdAt">>,
                                                    <<"profile", "id">> >>,
                     mode |-> "partial", caseSensitive |-> FALSE] }

\* Options given to buildAdvancedQuery: every filter list alone or with
\* relations to load, and the other clauses next to a short filter list.
BuildOptions ==
    { Options(fs, << >>, << >>, NoSearch, << >>, NoPagination) :
        fs \in FilterLists }
    \cup
    { Options(fs, rs, << >>, NoSearch, << >>, NoPagination) :
        fs \in JoinFilterLists, rs \in RelationLists }
    \cup
    { Options(fs, << >>, st, NoSearch, << >>, NoPagination) :
        fs \in FewFilterLists, st \in SortLists }
    \cup
    { Options(fs, << >>, << >>, sr, << >>, NoPagination) :
        fs \in FewFilterLists, sr \in SearchSpecs }
    \cup
    { Options(fs, << >>, st, sr, hv, NoPagination) :
        fs \in FewFilterLists, st \in FewSortLists, sr \in FewSearchSpecs,
        hv \in HavingLists }
    \cup
    { [EmptyOptions EXCEPT !.select = sel, !.groupBy = gb, !.distinct = dc,
                           !.cache = dc, !.lock = IF dc THEN <<"pessimistic_read">> ELSE NotSet] :
        sel \in SelectSpecs, gb \in GroupByLists, dc \in BOOLEAN }

RootEntities == {"User", "Ghost"}

\* Options tried on the entity class without metadata
UnknownEntityOptions ==
    { Options(fs, << >>, st, sr, << >>, NoPagination) :
        fs \in FewFilterLists, st \in FewSortLists, sr \in FewSearchSpecs }
    \cup
    { Options(<< F(<<"profile", "id">>, "eq", <<"a">>, NotSet) >>, << >>, << >>,
              NoSearch, << >>, NoPagination) }

BuildOptionsOf(e) == IF e = "Ghost" THEN UnknownEntityOptions ELSE BuildOptions
ExecuteEntities == {"User"}
ResolveEntities == {"User", "Profile", "Ghost"}

Paths == { f.field : f \in FilterPool }
            \cup { fs[1].field : fs \in ExtraFilterLists }
            \cup { <<"profile">>, <<"profile", "xyz">>, <<"profile", "", "id">>,
                   <<"profile", "profile", "id">>, <<"address", "city">>,
                   <<"profile", "id", "x">>, <<"id">>,
                   <<"">> }

\* page and limit values a caller may supply
MaxSmallLimit == 2
PageInputs == {NotSet} \cup { <<n>> : n \in (0 - 1)..MaxPage }
LimitInputs == {NotSet} \cup { <<n>> : n \in ((0 - 1)..MaxSmallLimit)
                                     \cup {MaxLimit, MaxLimit + 1} }

PagedFilterLists == { << F(<<"xyz">>, "eq", <<"a">>, NotSet),
                                F(<<"role">>, "eq", <<"admin">>, NotSet) >> }

PagedOptions ==
    { Options(fs, << >>, << >>, NoSearch, << >>,
              [present |-> pg # NotSet \/ lm # NotSet, page |-> pg, limit |-> lm]) :
        fs \in PagedFilterLists, pg \in PageInputs, lm \in LimitInputs }

DynFilter(field, operator, isArray, value) ==
    [field |-> field, operator |-> operator, isArray |-> isArray, value |-> value]

DynamicFilterLists ==
    { << DynFilter(<<"role">>, NotSet, FALSE, <<"admin">>) >>,
      << DynFilter(<<"createdAt">>, <<"between">>, TRUE, <<"a", "b">>),
         DynFilter(<<"createdAt">>, <<"between">>, FALSE, <<"a,b">>) >> }

DynamicOptions ==
    { [filters |-> fs, search |-> [query |-> "", fields |-> << >>],
       sort |-> << >>, page |-> pg, limit |-> lm, include |-> << >>,
       select |-> << >>, exclude |-> << >>] :
        fs \in DynamicFilterLists, pg \in PageInputs, lm \in LimitInputs }

\* GET /users query strings
Query(page, limit, search, sort, filter, include, select) ==
    [page |-> page, limit |-> limit, search |-> search, sort |-> sort,
     filter |-> filter, include |-> include, select |-> select]

FilterStrings ==
    { "role:admin", "role:eq:admin", " role : eq : admin ", "role:ne:admin",
      "email:like:%gmail%", "role:in:admin,user", "role:nin:admin,user",
      "createdAt:between:a,b", "createdAt:dateRange:a,b", "createdAt:gte:a",
      "settings:isNull", "role:eq:a:b", "role", ":eq:admin", "role:",
      "xyz:eq:a", "profile.id:eq:a", "   " }

Queries ==
    { Query(NotSet, NotSet, NotSet, NotSet, << f >>, NotSet, NotSet) :
        f \in FilterStrings }
    \cup { Query(pg, lm, NotSet, NotSet, NotSet, NotSet, NotSet) :
             pg \in {NotSet, <<"2">>, <<"abc">>, <<" 1x">>},
             lm \in {NotSet, <<"200">>, <<"-1">>, <<"2">>} }
    \cup { Query(NotSet, NotSet, sr, st, NotSet, NotSet, NotSet) :
             sr \in {NotSet, <<" john ">>, <<"  ">>},
             st \in {NotSet, <<"createdAt:desc">>, <<"email">>, <<"email:up">>,
                     <<"settings:DESC">>, <<" : ASC">>} }
    \cup { Query(<<"1">>, <<"5">>, <<"john">>, <<"createdAt:DESC">>, << f >>,
                 <<"profile">>, <<"id,email">>) :
             f \in {"role:eq:admin", "createdAt:between:a,b", "xyz:eq:a"} }
    \cup { Query(NotSet, NotSet, NotSet, NotSet, NotSet, inc, sel) :
             inc \in {NotSet, <<"profile">>, <<"profile, ,orders">>,
                      <<"profile.address">>},
             sel \in {NotSet, <<"id, email">>, <<",">>} }

\* Options handed to validateQueryOptions directly
ValidatedFilterLists ==
    { << >>,
      << DynFilter(<<"role">>, <<"eq">>, FALSE, <<"admin">>),
         DynFilter(<<"createdAt">>, <<"between">>, TRUE, <<"a", "b">>) >>,
      << DynFilter(<<"email">>, NotSet, FALSE, <<"a">>),
         DynFilter(<<"xyz">>, <<"eq">>, FALSE, <<"a">>) >>,
      << DynFilter(<<"profile", "id">>, <<"eq">>, FALSE, <<"a">>) >> }
ValidatedSearches ==
    { [query |-> "", fields |-> << >>],
      [query |-> "john", fields |-> << <<"email">>, <<"displayName">> >>],
      [query |-> "john", fields |-> << <<"email">>, <<"createdAt">> >>] }
ValidatedSortLists ==
    { << >>,
      << [field |-> <<"createdAt">>, direction |-> <<"DESC">>],
         [field |-> <<"email">>, direction |-> NotSet] >>,
      << [field |-> <<"settings">>, direction |-> <<"ASC">>] >> }
ValidatedIncludes == { << >>, << <<"profile">> >>, << <<"profile">>, <<"orders">> >> }
Dynamic(fs, sr, st, inc) ==
    [filters |-> fs, search |-> sr, sort |-> st, page |-> NotSet,
     limit |-> NotSet, include |-> inc, select |-> << >>, exclude |-> << >>]
ValidatedOptions ==
    { Dynamic(fs, [query |-> "", fields |-> << >>], << >>, << >>) :
        fs \in ValidatedFilterLists }
    \cup { Dynamic(<< >>, sr, st, << >>) :
             sr \in ValidatedSearches, st \in ValidatedSortLists }
    \cup { Dynamic(<< DynFilter(<<"role">>, <<"eq">>, FALSE, <<"admin">>),
                      DynFilter(<<"createdAt">>, <<"between">>, TRUE, <<"a", "b">>) >>,
                   [query |-> "john", fields |-> << <<"email">>, <<"displayName">> >>],
                   << [field |-> <<"createdAt">>, direction |-> <<"DESC">>],
                      [field |-> <<"email">>, direction |-> NotSet] >>,
                   inc) : inc \in ValidatedIncludes }
ValidatedEntities == {"User", "Ghost"}

\* Options given to BaseService.count; << >> stands for no options
CountFilterLists ==
    { << >>,
      << F(<<"role">>, "eq", <<"admin">>, NotSet) >>,
      << F(<<"role">>, "eq", <<"admin">>, NotSet),
         F(<<"createdAt">>, "between", NotSet, << <<"a", "b">> >>) >>,
      << F(<<"xyz">>, "eq", <<"a">>, NotSet) >>,
      << F(<<"profile", "id">>, "eq", <<"a">>, NotSet) >> }
CountPaginations ==
    { NoPagination,
      [present |-> TRUE, page |-> NotSet, limit |-> NotSet],
      [present |-> TRUE, page |-> <<1>>, limit |-> <<2>>] }
CountOptions ==
    { << >> } \cup
    { << Options(fs, << >>, << >>, NoSearch, << >>, pg) >> :
        fs \in CountFilterLists, pg \in CountPaginations }
CountEntities == {"User", "Ghost"}

\* Callers of getQueryCapabilities and the entity classes they ask for
Callers == {1, 2}
CallEntities == {"User", "Profile", "Ghost"}
IdleCall == [pc |-> "idle", entity |-> "User", metadata |-> << >>,
             capabilities |-> << >>, outcome |-> "none", value |-> << >>,
             wrote |-> FALSE]

\* Clients of the token service, its users, and the last second of the clock
Clients == {1, 2}
Users == {"u1"}
MaxClock == 2
IdleSession == [pc |-> "idle", op |-> "none", presented |-> << >>,
                payload |-> << >>, pair |-> << >>, result |-> "none"]

\* JwtUtils.parseExpiryToSeconds, for an expiry that matches (\d+)([smhd])
parseExpiryToSeconds(expiry) ==
    CASE expiry.unit = "s" -> expiry.value
      [] expiry.unit = "m" -> expiry.value * 60
      [] expiry.unit = "h" -> expiry.value * 60 * 60
      [] expiry.unit = "d" -> expiry.value * 24 * 60 * 60
      [] OTHER -> 3600
accessTokenExpiry == [value |-> 15, unit |-> "m"]
refreshTokenExpiry == [value |-> 7, unit |-> "d"]

\* JwtPayload of a user: { sub, role }
JwtPayload(userId) == [sub |-> userId, role |-> "user"]

\* jwtService.signAsync(payload, { expiresIn }) at second now.  The token is
\* the signed encoding of sub, role, iat and exp, and of nothing else: two
\* tokens signed for one payload and expiry in one second are one string.
signAsync(payload, expiresIn, now) ==
    [sub |-> payload.sub, role |-> payload.role, iat |-> now,
     exp |-> now + parseExpiryToSeconds(expiresIn), signed |-> TRUE]

\* jwtService.verify(token) at second now: << payload >>, << >> for a throw
verify(token, now) ==
    IF token.signed /\ now < token.exp
    THEN << [sub |-> token.sub, role |-> token.role,
             iat |-> token.iat, exp |-> token.exp] >>
    ELSE << >>

\* a token that was not signed with the service's secret
ForgedToken ==
    [sub |-> "u1", role |-> "user", iat |-> 0,
     exp |-> parseExpiryToSeconds(refreshTokenExpiry), signed |-> FALSE]

\* the pair signed at second now
TokenPair(payload, now) ==
    [accessToken |-> signAsync(payload, accessTokenExpiry, now),
     refreshToken |-> signAsync(payload, refreshTokenExpiry, now)]

\* `refresh_token:${userId}`
refreshTokenKey(userId) == "refresh_token:" \o userId

\* RedisService.get / set / del on the store, at second now
RedisGet(store, key, now) ==
    IF key \in DOMAIN store /\ now < store[key].expiresAt
    THEN << store[key].value >> ELSE << >>
RedisSet(store, key, value, ttlSeconds, now) ==
    [k \in DOMAIN store \cup {key} |->
        IF k = key THEN [value |-> value, expiresAt |-> now + ttlSeconds]
        ELSE store[k]]
RedisDel(store, key) == [k \in DOMAIN store \ {key} |-> store[k]]

\* TokenService.isRefreshTokenValid: storedToken === token
isRefreshTokenValid(store, userId, token, now) ==
    RedisGet(store, refreshTokenKey(userId), now) = << token >>

\* TokenService.validateRefreshToken run without interruption: << payload >>
\* or << >> for null
validateRefreshToken(store, token, now) ==
    LET payload == verify(token, now)
    IN  IF payload = << >> THEN << >>
        ELSE IF isRefreshTokenValid(store, payload[1].sub, token, now)
             THEN payload ELSE << >>

----------------------------------------------------------------------------
(* State machine *)

Init ==
    /\ metadataCache = << >>
    /\ capabilitiesCache = << >>
    /\ op = "none"
    /\ ent = "User"
    /\ opts = EmptyOptions
    /\ outcome = "none"
    /\ qb = createQueryBuilder
    /\ log = << >>
    /\ resolved = << >>
    /\ path = << >>
    /\ pager = << >>
    /\ backend = << >>
    /\ ran = << >>
    /\ validation = << >>
    /\ request = << >>
    /\ calls = [c \in Callers |-> IdleCall]
    /\ counted = << >>
    /\ redis = << >>
    /\ clock = 0
    /\ sessions = [c \in Clients |-> IdleSession]
    /\ issued = {}
    /\ spent = {}

\* AdvancedQueryBuilderService.buildAdvancedQuery(repository, entity, options)
BuildAdvancedQuery ==
    \E e \in RootEntities :
      \E o \in BuildOptionsOf(e) :
        LET r == buildAdvancedQuery(e, o)
        IN  /\ op' = "buildAdvancedQuery"
            /\ ent' = e
            /\ opts' = o
            /\ outcome' = "returned"
            /\ qb' = r.qb
            /\ log' = r.log
            /\ metadataCache' = MetadataCacheAfterBuild(e, o)
            /\ capabilitiesCache' = CapabilitiesCacheAfterBuild(e, o)
            /\ pager' = << >>
            /\ backend' = << >>
            /\ resolved' = << >>
            /\ path' = << >>
            /\ request' = << >> /\ UNCHANGED otherVars
            /\ ran' = buildIn(MetaService(metadataCache, capabilitiesCache), e, o).ran
            /\ validation' = << >>

\* A storage call: which one, and the query builder as it is when called
StorageCall(call, q) == [call |-> call, query |-> q]

\* Paginate with skip and take applied before the count is taken
Paginate_SkipBeforeCount(name, e, o, total) ==
    LET r == buildAdvancedQuery(e, o)
        paged == [r.qb EXCEPT !.skip = << OffsetOf(o) >>, !.take = << LimitOf(o) >>]
    IN  /\ op' = name
        /\ ent' = e
        /\ opts' = o
        /\ outcome' = "returned"
        /\ qb' = paged
        /\ log' = r.log
        /\ metadataCache' = MetadataCacheAfterBuild(e, o)
        /\ capabilitiesCache' = CapabilitiesCacheAfterBuild(e, o)
        /\ backend' = << StorageCall("getCount", paged), StorageCall("getMany", paged) >>
        /\ pager' = << paginationBlock(o, total) >>
        /\ resolved' = << >>
        /\ path' = << >>
        /\ ran' = buildIn(MetaService(metadataCache, capabilitiesCache), e, o).ran
        /\ validation' = << >>

\* executePaginatedQuery body, with the count the storage backend reports:
\* build, getCount, skip(offset).take(limit), getMany, pagination block.
Paginate(name, e, o, total) ==
    LET r == buildAdvancedQuery(e, o)
        paged == [r.qb EXCEPT !.skip = << OffsetOf(o) >>, !.take = << LimitOf(o) >>]
    IN  /\ op' = name
        /\ ent' = e
        /\ opts' = o
        /\ outcome' = "returned"
        /\ qb' = paged
        /\ log' = r.log
        /\ metadataCache' = MetadataCacheAfterBuild(e, o)
        /\ capabilitiesCache' = CapabilitiesCacheAfterBuild(e, o)
        /\ backend' = << StorageCall("getCount", r.qb), StorageCall("getMany", paged) >>
        /\ pager' = << paginationBlock(o, total) >>
        /\ resolved' = << >>
        /\ path' = << >>
        /\ ran' = buildIn(MetaService(metadataCache, capabilitiesCache), e, o).ran
        /\ validation' = << >>

\* AdvancedQueryBuilderService.executePaginatedQuery
ExecutePaginatedQuery ==
    \E e \in ExecuteEntities, o \in PagedOptions, total \in 0..MaxTotal :
        /\ Paginate("executePaginatedQuery", e, o, total)
        /\ request' = << >> /\ UNCHANGED otherVars

\* DynamicQueryBuilderService.executeDynamicQuery
ExecuteDynamicQuery ==
    \E e \in ExecuteEntities, d \in DynamicOptions, total \in 0..MaxTotal :
        /\ Paginate("executeDynamicQuery", e, mapDynamicToAdvancedOptions(d, TRUE), total)
        /\ request' = << >> /\ UNCHANGED otherVars

\* UsersController.findAll: parse the query string, validate the options,
\* throw when they are invalid, otherwise executeDynamicQuery (which is
\* executePaginatedQuery on the mapped options).
FindAll ==
    \E query \in Queries, total \in {0, MaxTotal} :
        LET e == "User"
            options == parseQueryToOptions(query)
            checked == validateQueryOptions(e, options)
            M1 == getQueryCapabilitiesIn(
                      MetaService(metadataCache, capabilitiesCache), e)
            o == mapDynamicToAdvancedOptions(options, TRUE)
            r == buildAdvancedQuery(e, o)
            M2 == buildIn(M1, e, o)
            paged == [r.qb EXCEPT !.skip = << OffsetOf(o) >>,
                                  !.take = << LimitOf(o) >>]
        IN  /\ op' = "findAll"
            /\ ent' = e
            /\ request' = << [query |-> query, options |-> options,
                              validation |-> checked] >>
            /\ UNCHANGED otherVars
            /\ resolved' = << >>
            /\ path' = << >>
            /\ validation' = << >>
            /\ IF ~checked.isValid
               THEN /\ outcome' = "threw"
                    /\ opts' = EmptyOptions
                    /\ qb' = createQueryBuilder
                    /\ log' = << >>
                    /\ backend' = << >>
                    /\ pager' = << >>
                    /\ metadataCache' = M1.mc
                    /\ capabilitiesCache' = M1.cc
                    /\ ran' = M1.ran
               ELSE /\ outcome' = "returned"
                    /\ opts' = o
                    /\ qb' = paged
                    /\ log' = r.log
                    /\ backend' = << StorageCall("getCount", r.qb),
                                     StorageCall("getMany", paged) >>
                    /\ pager' = << paginationBlock(o, total) >>
                    /\ metadataCache' = M2.mc
                    /\ capabilitiesCache' = M2.cc
                    /\ ran' = M2.ran

\* DynamicQueryBuilderService.validateQueryOptions(entity, options)
ValidateQueryOptions ==
    \E e \in ValidatedEntities, d \in ValidatedOptions :
        LET M == getQueryCapabilitiesIn(
                     MetaService(metadataCache, capabilitiesCache), e)
        IN  /\ op' = "validateQueryOptions"
            /\ ent' = e
            /\ outcome' = "returned"
            /\ request' = << [query |-> Query(NotSet, NotSet, NotSet, NotSet,
                                               NotSet, NotSet, NotSet),
                              options |-> d,
                              validation |-> validateQueryOptions(e, d)] >>
            /\ metadataCache' = M.mc
            /\ capabilitiesCache' = M.cc
            /\ ran' = M.ran
            /\ opts' = EmptyOptions
            /\ qb' = createQueryBuilder
            /\ log' = << >>
            /\ resolved' = << >>
            /\ path' = << >>
            /\ pager' = << >>
            /\ backend' = << >>
            /\ validation' = << >>
            /\ UNCHANGED otherVars

\* AdvancedQueryBuilderService.executeQuery, with the number of rows the
\* storage backend counts for the query: build, getMany, and when the
\* options carry a pagination block a second build without it and getCount.
countQueryOptions(o) == [o EXCEPT !.pagination = NoPagination]
executeQueryCalls(e, o) ==
    IF o.pagination.present
    THEN << StorageCall("getMany", buildAdvancedQuery(e, o).qb),
            StorageCall("getCount",
                        buildAdvancedQuery(e, countQueryOptions(o)).qb) >>
    ELSE << StorageCall("getMany", buildAdvancedQuery(e, o).qb) >>
executeQueryLog(e, o) ==
    IF o.pagination.present
    THEN buildAdvancedQuery(e, o).log
            \o buildAdvancedQuery(e, countQueryOptions(o)).log
    ELSE buildAdvancedQuery(e, o).log
executeQueryTotal(o, matching) ==
    IF o.pagination.present THEN << matching >> ELSE NotSet
executeQueryIn(M, e, o) ==
    IF o.pagination.present
    THEN buildIn(buildIn(M, e, o), e, countQueryOptions(o))
    ELSE buildIn(M, e, o)

\* BaseService.count(options): result.total || 0 of executeQuery when
\* options are given, repository.count() otherwise.  matching is the number
\* of rows the storage holds that match the options.
CountWith(e, o, matching) ==
    /\ opts' = o
    /\ qb' = buildAdvancedQuery(e, o).qb
    /\ log' = executeQueryLog(e, o)
    /\ backend' = executeQueryCalls(e, o)
    /\ counted' = << [given |-> TRUE, matching |-> matching,
                      total |-> executeQueryTotal(o, matching),
                      returned |-> IF executeQueryTotal(o, matching) = NotSet
                                   THEN 0
                                   ELSE executeQueryTotal(o, matching)[1]] >>
    /\ ran' = executeQueryIn(MetaService(metadataCache, capabilitiesCache),
                             e, o).ran
    /\ metadataCache' = MetadataCacheAfterBuild(e, o)
    /\ capabilitiesCache' = CapabilitiesCacheAfterBuild(e, o)

CountAll(matching) ==
    /\ opts' = EmptyOptions
    /\ qb' = createQueryBuilder
    /\ log' = << >>
    /\ backend' = << StorageCall("count", createQueryBuilder) >>
    /\ counted' = << [given |-> FALSE, matching |-> matching,
                      total |-> NotSet, returned |-> matching] >>
    /\ ran' = << >>
    /\ UNCHANGED <<metadataCache, capabilitiesCache>>

Count ==
    \E e \in CountEntities, given \in CountOptions, matching \in 0..MaxTotal :
        /\ op' = "count"
        /\ ent' = e
        /\ outcome' = "returned"
        /\ resolved' = << >>
        /\ path' = << >>
        /\ pager' = << >>
        /\ validation' = << >>
        /\ request' = << >>
        /\ UNCHANGED <<calls, tokenVars>>
        /\ IF given = << >> THEN CountAll(matching)
           ELSE CountWith(e, given[1], matching)

\* ReflectionService.resolvePath(entity, path)
ResolvePath ==
    \E e \in ResolveEntities, p \in Paths :
        /\ op' = "resolvePath"
        /\ ent' = e
        /\ path' = p
        /\ resolved' = << resolvePath(e, p) >>
        /\ metadataCache' = IF NonEmptyParts(p) # << >>
                            THEN MetadataCacheAfter(metadataCache, e)
                            ELSE metadataCache
        /\ outcome' = "returned"
        /\ opts' = EmptyOptions
        /\ qb' = createQueryBuilder
        /\ log' = << >>
        /\ pager' = << >>
        /\ backend' = << >>
        /\ ran' = resolvePathIn(MetaService(metadataCache, capabilitiesCache), e, p).ran
        /\ validation' = << >>
        /\ request' = << >> /\ UNCHANGED otherVars
        /\ UNCHANGED capabilitiesCache

\* The metadata service's own operations
MetadataEntities == {"User", "Profile", "Address", "Ghost"}
FieldInputs == {"id", "email", "createdAt", "settings", "city", "xyz"}
OperationInputs == {"search", "filter", "sort", "select", "export"}

\* what every call on the metadata service leaves of the other operations
NoQueryResult ==
    /\ opts' = EmptyOptions
    /\ qb' = createQueryBuilder
    /\ log' = << >>
    /\ resolved' = << >>
    /\ path' = << >>
    /\ pager' = << >>
    /\ backend' = << >>
    /\ request' = << >> /\ UNCHANGED otherVars

\* AdvancedMetadataService.getEntityMetadata(entity)
GetEntityMetadata ==
    \E e \in MetadataEntities :
        LET M == getEntityMetadataIn(MetaService(metadataCache, capabilitiesCache), e)
        IN  /\ op' = "getEntityMetadata"
            /\ ent' = e
            /\ outcome' = IF M.threw THEN "threw" ELSE "returned"
            /\ metadataCache' = M.mc
            /\ capabilitiesCache' = M.cc
            /\ ran' = M.ran
            /\ validation' = << >>
            /\ NoQueryResult

\* AdvancedMetadataService.getQueryCapabilities(entity)
GetQueryCapabilities ==
    \E e \in MetadataEntities :
        LET M == getQueryCapabilitiesIn(MetaService(metadataCache, capabilitiesCache), e)
        IN  /\ op' = "getQueryCapabilities"
            /\ ent' = e
            /\ outcome' = IF M.threw THEN "threw" ELSE "returned"
            /\ metadataCache' = M.mc
            /\ capabilitiesCache' = M.cc
            /\ ran' = M.ran
            /\ validation' = << >>
            /\ NoQueryResult

\* AdvancedMetadataService.validateFieldAccess(entity, field, operation)
ValidateFieldAccess ==
    \E e \in MetadataEntities, field \in FieldInputs, operation \in OperationInputs :
        LET M == validateFieldAccessIn(MetaService(metadataCache, capabilitiesCache), e)
        IN  /\ op' = "validateFieldAccess"
            /\ ent' = e
            /\ outcome' = "returned"
            /\ metadataCache' = M.mc
            /\ capabilitiesCache' = M.cc
            /\ ran' = M.ran
            /\ validation' = << [field |-> field, operation |-> operation,
                                 result |-> validateFieldAccess(e, field, operation)] >>
            /\ NoQueryResult

\* AdvancedMetadataService.clearCache
ClearCache ==
    /\ metadataCache' = << >>
    /\ capabilitiesCache' = << >>
    /\ op' = "clearCache"
    /\ outcome' = "returned"
    /\ opts' = EmptyOptions
    /\ qb' = createQueryBuilder
    /\ log' = << >>
    /\ resolved' = << >>
    /\ path' = << >>
    /\ pager' = << >>
    /\ backend' = << >>
    /\ ran' = << >>
    /\ validation' = << >>
    /\ request' = << >> /\ UNCHANGED otherVars
    /\ UNCHANGED ent

----------------------------------------------------------------------------
(* getQueryCapabilities taken statement by statement, for several callers. *)
(* Its statements are synchronous; letting the callers interleave between  *)
(* them covers every order in which calls can reach the caches.            *)

\* Map.set keyed by something other than the entity's name
MapSet_OneKey(map, key, value) ==
    [k \in DOMAIN map \cup {"User"} |-> IF k = "User" THEN value ELSE map[k]]

\* Map.set(key, value)
MapSet(map, key, value) ==
    [k \in DOMAIN map \cup {key} |-> IF k = key THEN value ELSE map[k]]

queryVarsOfCall == <<op, ent, opts, outcome, qb, log, resolved, path, pager,
                     backend, ran, validation, request>>

\* a caller enters getQueryCapabilities(entity)
CallGetQueryCapabilities(c) ==
    /\ calls[c].pc \in {"idle", "done"}
    /\ \E e \in CallEntities :
          calls' = [calls EXCEPT ![c] = [IdleCall EXCEPT !.pc = "has", !.entity = e]]
    /\ UNCHANGED <<metadataCache, capabilitiesCache>>

\* if (this.capabilitiesCache.has(entityName)) return ...get(entityName)
CheckCapabilitiesCache(c) ==
    /\ calls[c].pc = "has"
    /\ calls' = [calls EXCEPT ![c] =
          IF calls[c].entity \in DOMAIN capabilitiesCache
          THEN [calls[c] EXCEPT !.pc = "done", !.outcome = "returned",
                                !.value = << capabilitiesCache[calls[c].entity] >>]
          ELSE [calls[c] EXCEPT !.pc = "metadata"]]
    /\ UNCHANGED <<metadataCache, capabilitiesCache>>

\* const metadata = this.getEntityMetadata(entity)
CallerGetsMetadata(c) ==
    /\ calls[c].pc = "metadata"
    /\ LET e == calls[c].entity
       IN  IF e \in DOMAIN metadataCache
           THEN /\ calls' = [calls EXCEPT ![c].pc = "build",
                                          ![c].metadata = << metadataCache[e] >>]
                /\ UNCHANGED metadataCache
           ELSE IF ExtractThrows(e)
           THEN /\ calls' = [calls EXCEPT ![c].pc = "done", ![c].outcome = "threw"]
                /\ UNCHANGED metadataCache
           ELSE /\ calls' = [calls EXCEPT ![c].pc = "build",
                                          ![c].metadata = << extractEntityMetadata(e) >>]
                /\ metadataCache' = MapSet(metadataCache, e, extractEntityMetadata(e))
    /\ UNCHANGED capabilitiesCache

\* const capabilities = this.buildQueryCapabilities(metadata)
CallerBuildsCapabilities(c) ==
    /\ calls[c].pc = "build"
    /\ calls' = [calls EXCEPT ![c].pc = "set",
                              ![c].capabilities =
                                  << buildQueryCapabilities(calls[c].metadata[1]) >>]
    /\ UNCHANGED <<metadataCache, capabilitiesCache>>

\* this.capabilitiesCache.set(entityName, capabilities); return capabilities
CallerSetsCapabilities(c) ==
    /\ calls[c].pc = "set"
    /\ capabilitiesCache' = MapSet(capabilitiesCache, calls[c].entity,
                                   calls[c].capabilities[1])
    /\ calls' = [calls EXCEPT ![c].pc = "done", ![c].outcome = "returned",
                              ![c].value = calls[c].capabilities,
                              ![c].wrote = TRUE]
    /\ UNCHANGED metadataCache

\* AdvancedMetadataService.getQueryCapabilities, one statement of one caller
GetQueryCapabilitiesStep ==
    /\ \E c \in Callers :
          \/ CallGetQueryCapabilities(c)
          \/ CheckCapabilitiesCache(c)
          \/ CallerGetsMetadata(c)
          \/ CallerBuildsCapabilities(c)
          \/ CallerSetsCapabilities(c)
    /\ UNCHANGED queryVarsOfCall
    /\ UNCHANGED <<counted, tokenVars>>

(* TokenService.  A call runs up to its next await of the store, and calls  *)
(* of other clients may run between two awaits.  Each action below is one  *)
(* such stretch of a call, ending with the effect of the store operation   *)
(* it awaits.                                                               *)

nonTokenVars == <<metadataCache, capabilitiesCache, queryVarsOfCall, calls,
                  counted>>

\* the tokens a client can present: those returned to some client, or a forgery
Presentable == issued \cup {ForgedToken}

\* generateTokenPair(user): sign both tokens
GenerateTokenPair(c) ==
    /\ sessions[c].pc = "idle"
    /\ \E u \in Users :
        sessions' = [sessions EXCEPT ![c] =
            [IdleSession EXCEPT !.pc = "store", !.op = "generateTokenPair",
                                !.payload = << JwtPayload(u) >>,
                                !.pair = << TokenPair(JwtPayload(u), clock) >>]]
    /\ UNCHANGED <<redis, clock, issued, spent>>

\* generateTokenPair: storeRefreshTokenInRedis, then return the pair
StoreGenerated(c) ==
    /\ sessions[c].pc = "store"
    /\ sessions[c].op = "generateTokenPair"
    /\ redis' = RedisSet(redis, refreshTokenKey(sessions[c].payload[1].sub),
                         sessions[c].pair[1].refreshToken,
                         parseExpiryToSeconds(refreshTokenExpiry), clock)
    /\ sessions' = [sessions EXCEPT ![c].pc = "done", ![c].result = "pair"]
    /\ issued' = issued \cup {sessions[c].pair[1].refreshToken}
    /\ UNCHANGED <<clock, spent>>

\* refreshAccessToken(refreshToken): validateRefreshToken, null when it fails
RefreshAccessToken(c) ==
    /\ sessions[c].pc = "idle"
    /\ \E t \in Presentable :
        LET payload == validateRefreshToken(redis, t, clock)
        IN  sessions' = [sessions EXCEPT ![c] =
                IF payload = << >>
                THEN [IdleSession EXCEPT !.pc = "done",
                                         !.op = "refreshAccessToken",
                                         !.presented = << t >>,
                                         !.result = "null"]
                ELSE [IdleSession EXCEPT !.pc = "sign",
                                         !.op = "refreshAccessToken",
                                         !.presented = << t >>,
                                         !.payload = payload]]
    /\ UNCHANGED <<redis, clock, issued, spent>>

\* refreshAccessToken: sign the new pair for { sub, role } of the payload
SignRefreshed(c) ==
    /\ sessions[c].pc = "sign"
    /\ sessions' = [sessions EXCEPT
            ![c].pc = "store",
            ![c].pair = << TokenPair(JwtPayload(sessions[c].payload[1].sub),
                                     clock) >>]
    /\ UNCHANGED <<redis, clock, issued, spent>>

\* refreshAccessToken: storeRefreshTokenInRedis(payload.sub, newRefreshToken)
StoreRefreshed(c) ==
    /\ sessions[c].pc = "store"
    /\ sessions[c].op = "refreshAccessToken"
    /\ redis' = RedisSet(redis, refreshTokenKey(sessions[c].payload[1].sub),
                         sessions[c].pair[1].refreshToken,
                         parseExpiryToSeconds(refreshTokenExpiry), clock)
    /\ sessions' = [sessions EXCEPT ![c].pc = "remove"]
    /\ UNCHANGED <<clock, issued, spent>>

\* refreshAccessToken: removeRefreshToken reads the stored token; when it is
\* not the presented one the call returns the pair
RemoveRefreshTokenGet(c) ==
    /\ sessions[c].pc = "remove"
    /\ IF RedisGet(redis, refreshTokenKey(sessions[c].payload[1].sub), clock)
            = sessions[c].presented
       THEN /\ sessions' = [sessions EXCEPT ![c].pc = "del"]
            /\ UNCHANGED <<issued, spent>>
       ELSE /\ sessions' = [sessions EXCEPT ![c].pc = "done",
                                            ![c].result = "pair"]
            /\ issued' = issued \cup {sessions[c].pair[1].refreshToken}
            /\ spent' = spent \cup {sessions[c].presented[1]}
    /\ UNCHANGED <<redis, clock>>

\* refreshAccessToken: removeRefreshToken deletes the key, the call returns
RemoveRefreshTokenDel(c) ==
    /\ sessions[c].pc = "del"
    /\ redis' = RedisDel(redis, refreshTokenKey(sessions[c].payload[1].sub))
    /\ sessions' = [sessions EXCEPT ![c].pc = "done", ![c].result = "pair"]
    /\ issued' = issued \cup {sessions[c].pair[1].refreshToken}
    /\ spent' = spent \cup {sessions[c].presented[1]}
    /\ UNCHANGED clock

\* revokeRefreshToken(userId), as AuthService.logout calls it
RevokeRefreshToken(c) ==
    /\ sessions[c].pc = "idle"
    /\ \E u \in Users :
        /\ redis' = RedisDel(redis, refreshTokenKey(u))
        /\ sessions' = [sessions EXCEPT ![c] =
                [IdleSession EXCEPT !.pc = "done", !.op = "revokeRefreshToken",
                                    !.payload = << JwtPayload(u) >>,
                                    !.result = "void"]]
    /\ UNCHANGED <<clock, issued, spent>>

\* validateRefreshToken(token) called on its own
ValidateRefreshToken(c) ==
    /\ sessions[c].pc = "idle"
    /\ \E t \in Presentable :
        LET payload == validateRefreshToken(redis, t, clock)
        IN  sessions' = [sessions EXCEPT ![c] =
                [IdleSession EXCEPT !.pc = "done",
                                    !.op = "validateRefreshToken",
                                    !.presented = << t >>,
                                    !.payload = payload,
                                    !.result = IF payload = << >> THEN "null"
                                               ELSE "payload"]]
    /\ UNCHANGED <<redis, clock, issued, spent>>

\* the client has its answer and may call again
Respond(c) ==
    /\ sessions[c].pc = "done"
    /\ sessions' = [sessions EXCEPT ![c] = IdleSession]
    /\ UNCHANGED <<redis, clock, issued, spent>>

\* a second passes
Tick ==
    /\ clock < MaxClock
    /\ clock' = clock + 1
    /\ UNCHANGED <<redis, sessions, issued, spent>>
    /\ UNCHANGED nonTokenVars

RefreshStep(c) ==
    \/ RefreshAccessToken(c)
    \/ SignRefreshed(c)
    \/ StoreRefreshed(c)
    \/ RemoveRefreshTokenGet(c)
    \/ RemoveRefreshTokenDel(c)

TokenStep(c) ==
    \/ GenerateTokenPair(c)
    \/ StoreGenerated(c)
    \/ RefreshStep(c)
    \/ RevokeRefreshToken(c)
    \/ ValidateRefreshToken(c)
    \/ Respond(c)

\* calls of the clients in any interleaving
TokenServiceStep ==
    /\ \E c \in Clients : TokenStep(c)
    /\ UNCHANGED nonTokenVars

\* calls served one after another: a call starts and proceeds while no other
\* client has a call in progress or an answer pending
TokenServiceStepInTurn ==
    /\ \E c \in Clients :
        /\ \A d \in Clients \ {c} : sessions[d].pc = "idle"
        /\ TokenStep(c)
    /\ UNCHANGED nonTokenVars

\* refreshAccessToken calls only, one per client
RefreshRaceStep ==
    /\ \E c \in Clients : RefreshStep(c)
    /\ UNCHANGED nonTokenVars

Next ==
    \/ BuildAdvancedQuery
    \/ ExecutePaginatedQuery
    \/ ExecuteDynamicQuery
    \/ FindAll
    \/ ValidateQueryOptions
    \/ ResolvePath
    \/ GetEntityMetadata
    \/ GetQueryCapabilities
    \/ ValidateFieldAccess
    \/ ClearCache
    \/ GetQueryCapabilitiesStep
    \/ Count
    \/ TokenServiceStep
    \/ Tick

Spec == Init /\ [][Next]_vars

\* The builder alone
NextBuild == BuildAdvancedQuery \/ ClearCache
SpecBuild == Init /\ [][NextBuild]_vars

\* The executor alone
NextExecute == ExecutePaginatedQuery \/ ExecuteDynamicQuery \/ ClearCache
SpecExecute == Init /\ [][NextExecute]_vars

\* Callers of getQueryCapabilities racing, with the cache cleared at times
NextCapabilities == GetQueryCapabilitiesStep \/ ClearCache
SpecCapabilities == Init /\ [][NextCapabilities]_vars

\* The token service alone, its calls interleaved
NextTokens == TokenServiceStep \/ Tick
SpecTokens == Init /\ [][NextTokens]_vars

\* The token service alone, its calls served one after another
NextTokensInTurn == TokenServiceStepInTurn \/ Tick
SpecTokensInTurn == Init /\ [][NextTokensInTurn]_vars

\* A user logged in at second 0, and the refresh calls of the clients that
\* follow, interleaved
LoggedIn ==
    LET t == signAsync(JwtPayload("u1"), refreshTokenExpiry, 0)
    IN  /\ redis = RedisSet(<< >>, refreshTokenKey("u1"), t,
                            parseExpiryToSeconds(refreshTokenExpiry), 0)
        /\ issued = {t}
InitLoggedIn ==
    /\ metadataCache = << >>
    /\ capabilitiesCache = << >>
    /\ op = "none"
    /\ ent = "User"
    /\ opts = EmptyOptions
    /\ outcome = "none"
    /\ qb = createQueryBuilder
    /\ log = << >>
    /\ resolved = << >>
    /\ path = << >>
    /\ pager = << >>
    /\ backend = << >>
    /\ ran = << >>
    /\ validation = << >>
    /\ request = << >>
    /\ calls = [c \in Callers |-> IdleCall]
    /\ counted = << >>
    /\ clock = 0
    /\ sessions = [c \in Clients |-> IdleSession]
    /\ spent = {}
    /\ LoggedIn
NextRefreshRace == RefreshRaceStep \/ Tick
SpecRefreshRace == InitLoggedIn /\ [][NextRefreshRace]_vars

\* BaseService.count alone
NextCount == Count \/ ClearCache
SpecCount == Init /\ [][NextCount]_vars

\* The users endpoint alone
NextFindAll == FindAll \/ ValidateQueryOptions \/ ClearCache
SpecFindAll == Init /\ [][NextFindAll]_vars

\* The path resolver alone
NextResolve == ResolvePath \/ ClearCache
SpecResolve == Init /\ [][NextResolve]_vars

\* The metadata service with the resolver
NextMetadata ==
    \/ GetEntityMetadata
    \/ GetQueryCapabilities
    \/ ValidateFieldAccess
    \/ ResolvePath
    \/ ClearCache
SpecMetadata == Init /\ [][NextMetadata]_vars

----------------------------------------------------------------------------
(* The schema read directly, as the properties below refer to it *)

SchemaColumns(e) == Names(ReflectColumns(e))
SchemaRelations(e) == Names(ReflectRelations(e))
SchemaTarget(e, r) ==
    (CHOOSE x \in Range(ReflectRelations(e)) : x.name = r).target
AllSchemaNames ==
    UNION { SchemaColumns(e) \cup SchemaRelations(e) : e \in RegisteredEntities }

\* p leads from e over declared relations, each looked up on the target of
\* the one before, to a column of the entity reached
RECURSIVE SchemaColumnPath(_, _, _)
SchemaColumnPath(e, p, i) ==
    IF i = Len(p) THEN p[i] \in SchemaColumns(e)
    ELSE /\ p[i] \in SchemaRelations(e)
         /\ SchemaColumnPath(SchemaTarget(e, p[i]), p, i + 1)

RECURSIVE JoinWith(_, _)
JoinWith(parts, sep) ==
    IF Len(parts) = 0 THEN ""
    ELSE IF Len(parts) = 1 THEN parts[1]
    ELSE JoinWith(Front(parts), sep) \o sep \o parts[Len(parts)]

AliasOfField(field) ==
    IF Len(field) = 1 THEN "entity" ELSE JoinWith(Front(field), "_")

IsBuild == op = "buildAdvancedQuery"
IsExecute == op \in {"executePaginatedQuery", "executeDynamicQuery"}
ParamNames(w) == { w.params[k].name : k \in 1..Len(w.params) }
FilterWheres == { k \in 1..Len(qb.wheres) : qb.wheres[k].operator # "search" }
JoinKey(j) == <<j.parent, j.property, j.alias>>

----------------------------------------------------------------------------
(* C1 *)

\* C1: when several clauses reference the same dotted relation path, the
\* built query holds exactly one join for each relation chain of the path:
\* no two joins of the query have the same parent, property and alias.
C1_OneJoinPerChain ==
    (IsBuild \/ IsExecute) =>
        \A i, j \in 1..Len(qb.joins) :
            JoinKey(qb.joins[i]) = JoinKey(qb.joins[j]) => i = j

----------------------------------------------------------------------------
(* C2 *)

\* The field names nothing the entity could reach: a plain name that is no
\* column of the entity, or a dotted path with a segment that is neither a
\* column nor a relation anywhere in the schema.
UnknownToEntity(e, field) ==
    IF Len(field) = 1 THEN field[1] \notin SchemaColumns(e)
    ELSE \E k \in 1..Len(field) : field[k] \notin AllSchemaNames

RemoveAt(seq, i) == SubSeq(seq, 1, i - 1) \o SubSeq(seq, i + 1, Len(seq))
WithoutFilter(o, i) == [o EXCEPT !.filters = RemoveAt(@, i)]

\* A query with the names of its bound parameters erased
EraseParamNames(q) ==
    [q EXCEPT !.wheres =
        [k \in 1..Len(q.wheres) |->
            [q.wheres[k] EXCEPT !.params =
                [n \in 1..Len(q.wheres[k].params) |->
                    [q.wheres[k].params[n] EXCEPT !.name = ""]]]]]

----------------------------------------------------------------------------
(* C3 *)

IsRangeOperator(o) == o \in {"between", "dateRange"}
HasTwoValues(f) == f.values # NotSet /\ Len(f.values[1]) = 2
PlainKnown(e, f) == Len(f.field) = 1 /\ f.field[1] \in SchemaColumns(e)
IndexName(i) == "filter_" \o ToString(i - 1)

\* the range predicate compiled from the i-th condition of the list
RangePredicateOf(i) ==
    \E k \in FilterWheres :
        /\ ParamNames(qb.wheres[k]) = {IndexName(i) \o "_start", IndexName(i) \o "_end"}
        /\ qb.wheres[k].terms[1].sql = "BETWEEN"
        /\ qb.wheres[k].terms[1].column = opts.filters[i].field[1]

\* the single-valued predicate compiled from the i-th condition
ScalarPredicateOf(i) ==
    \E k \in FilterWheres :
        /\ ParamNames(qb.wheres[k]) = {IndexName(i)}
        /\ qb.wheres[k].operator = opts.filters[i].operator
        /\ qb.wheres[k].terms[1].column = opts.filters[i].field[1]

ReportedFor(f) ==
    \E n \in 1..Len(log) : log[n].field = f.field /\ log[n].operator = f.operator

\* C3: a between / dateRange condition on a valid field compiles to a range
\* predicate exactly when it carries exactly 2 values; with another number
\* of values it is reported and contributes no predicate, and the valid
\* single-valued conditions next to it keep their predicates.
C3_RangeArityReported ==
    (IsBuild /\ ent \in RegisteredEntities) =>
        \A i \in 1..Len(opts.filters) :
            (IsRangeOperator(opts.filters[i].operator) /\ PlainKnown(ent, opts.filters[i])) =>
                /\ RangePredicateOf(i) <=> HasTwoValues(opts.filters[i])
                /\ ~HasTwoValues(opts.filters[i]) => ReportedFor(opts.filters[i])
                /\ \A j \in 1..Len(opts.filters) :
                      (PlainKnown(ent, opts.filters[j])
                          /\ opts.filters[j].operator \in {"eq", "ne"}) =>
                              ScalarPredicateOf(j)

----------------------------------------------------------------------------
(* C4 *)

\* C4: for page >= 1 and limit in 1..maxLimit the pagination block has
\* offset = (page-1)*limit, totalPages = the least n with n*limit >= total,
\* hasNext = (page < totalPages), hasPrev = (page > 1), and the data query
\* skips offset rows and takes limit rows.
C4_PaginationArithmetic ==
    (IsExecute /\ pager # << >>) =>
        LET b == pager[1]
        IN  (b.page >= 1 /\ b.limit \in 1..MaxLimit) =>
                /\ b.page = PageOf(opts) /\ b.limit = LimitOf(opts)
                /\ b.offset = (b.page - 1) * b.limit
                /\ b.totalPages.kind = "finite"
                /\ b.totalPages.n * b.limit >= b.total
                /\ (b.totalPages.n - 1) * b.limit < b.total
                /\ b.hasNext = (b.page < b.totalPages.n)
                /\ b.hasPrev = (b.page > 1)
                /\ qb.skip = << b.offset >> /\ qb.take = << b.limit >>

\* a last page that is not full, with a page before and none after
C4_Witness ==
    /\ IsExecute /\ pager # << >>
    /\ pager[1].page = 2 /\ pager[1].limit = 2 /\ pager[1].total = 3
    /\ pager[1].totalPages.n = 2 /\ ~pager[1].hasNext /\ pager[1].hasPrev

----------------------------------------------------------------------------
(* C5 *)

\* C5: whatever page and limit the caller supplied, the page and limit
\* used to run the paginated query and reported in the pagination block
\* satisfy page >= 1 and 1 <= limit <= maxLimit.
C5_PageAndLimitClamped ==
    (IsExecute /\ pager # << >>) =>
        /\ pager[1].page >= 1
        /\ pager[1].limit \in 1..MaxLimit
        /\ qb.take # NotSet /\ qb.take[1] \in 1..MaxLimit
        /\ qb.skip # NotSet /\ qb.skip[1] >= 0

----------------------------------------------------------------------------
(* C6 *)

SingleValueOperators == {"eq", "ne", "gt", "gte", "lt", "lte", "like", "ilike",
                         "contains", "startsWith", "endsWith", "regex"}
ListOperators == {"in", "nin"}
NullOperators == {"isNull", "isNotNull"}

ArityFits(f) ==
    CASE f.operator \in SingleValueOperators -> f.value # NotSet
      [] f.operator \in ListOperators -> f.values # NotSet /\ Len(f.values[1]) >= 1
      [] IsRangeOperator(f.operator) -> HasTwoValues(f)
      [] f.operator \in NullOperators -> TRUE
      [] OTHER -> FALSE

AllSegmentsNonEmpty(field) == \A k \in 1..Len(field) : field[k] # ""

\* field and operator are valid under the schema and the arity fits
ValidCondition(e, f) ==
    /\ AllSegmentsNonEmpty(f.field)
    /\ SchemaColumnPath(e, f.field, 1)
    /\ ArityFits(f)

PredicatesFor(f) ==
    { k \in FilterWheres :
        /\ qb.wheres[k].operator = f.operator
        /\ Len(qb.wheres[k].terms) = 1
        /\ qb.wheres[k].terms[1].alias = AliasOfField(f.field)
        /\ qb.wheres[k].terms[1].column = f.field[Len(f.field)] }

SameConditions(f) ==
    { j \in 1..Len(opts.filters) :
        /\ opts.filters[j].field = f.field
        /\ opts.filters[j].operator = f.operator
        /\ ArityFits(opts.filters[j]) }

\* C6: every filter condition whose field (plain, or reached over declared
\* relations) and operator are valid and whose arity fits has exactly one
\* predicate on its alias and column with its operator.
C6_OnePredicatePerValidCondition ==
    (IsBuild /\ ent \in RegisteredEntities) =>
        \A i \in 1..Len(opts.filters) :
            ValidCondition(ent, opts.filters[i]) =>
                Cardinality(PredicatesFor(opts.filters[i]))
                    = Cardinality(SameConditions(opts.filters[i]))

----------------------------------------------------------------------------
(* C7, C8 *)

\* C7: a path is resolved entity by entity: it is valid with a final field
\* exactly when each segment but the last is a relation of the entity
\* reached so far and the last is a column of the last relation's target.
C7_WalksTargetEntities ==
    (op = "resolvePath" /\ resolved # << >> /\ ent \in RegisteredEntities
        /\ AllSegmentsNonEmpty(path)) =>
            (resolved[1].valid /\ resolved[1].finalField # NoField)
                <=> SchemaColumnPath(ent, path, 1)

\* the segments at which resolution of the path on the examined entity
\* fails: a column that is not last, or a name that is neither
FailingSegments(e, parts) ==
    { k \in 1..Len(parts) :
        \/ parts[k] \in SchemaColumns(e) \ SchemaRelations(e) /\ k < Len(parts)
        \/ parts[k] \notin SchemaColumns(e) \cup SchemaRelations(e) }

FirstOf(S) == CHOOSE k \in S : \A m \in S : k <= m

----------------------------------------------------------------------------
(* C9, C10 *)

DroppedFilters == Len(opts.filters) - Cardinality(FilterWheres)
DroppedSorts == Len(opts.sort) - Len(qb.orderBys)

\* C9: what the build reports holds exactly one entry for each filter
\* condition or sort field it dropped, and nothing when nothing was dropped.
C9_OneReportEntryPerDrop ==
    IsBuild => Len(log) = DroppedFilters + DroppedSorts

\* C10: building a query with filters, sort or search for an entity whose
\* metadata extraction throws aborts instead of returning a query.
C10_UnknownEntityAborts ==
    (IsBuild /\ ExtractThrows(ent)
        /\ (Len(opts.filters) > 0 \/ Len(opts.sort) > 0 \/ opts.search.query # ""))
            => outcome = "threw"

----------------------------------------------------------------------------
(* C11 *)

CallsNamed(c) == { k \in 1..Len(backend) : backend[k].call = c }

\* C11: every executePaginatedQuery call issues exactly one count query and
\* exactly one data query, the count first; the count query is issued with
\* no offset and no limit on it and with the joins and predicates of the
\* data query, and the data query carries the offset and the limit.
C11_CountThenData ==
    IsExecute =>
        /\ Cardinality(CallsNamed("getCount")) = 1
        /\ Cardinality(CallsNamed("getMany")) = 1
        /\ Len(backend) = 2
        /\ backend[1].call = "getCount" /\ backend[2].call = "getMany"
        /\ backend[1].query.skip = NotSet /\ backend[1].query.take = NotSet
        /\ backend[1].query.joins = backend[2].query.joins
        /\ backend[1].query.wheres = backend[2].query.wheres
        /\ backend[2].query.skip = << OffsetOf(opts) >>
        /\ backend[2].query.take = << LimitOf(opts) >>
        /\ backend[2].query = qb

\* a second page of a filtered query was fetched
C11_Witness ==
    /\ IsExecute
    /\ Len(backend) = 2
    /\ Len(backend[1].query.wheres) = 1
    /\ backend[2].query.skip = <<2>> /\ backend[2].query.take = <<2>>

----------------------------------------------------------------------------
(* C12 *)

SchemaColumnType(e, c) ==
    (CHOOSE x \in Range(ReflectColumns(e)) : x.name = c).type

\* a declared search field that is valid for search: a text-like column of
\* the entity, or a path over declared relations to a column
ValidForSearch(e, field) ==
    /\ AllSegmentsNonEmpty(field)
    /\ SchemaColumnPath(e, field, 1)
    /\ Len(field) = 1 => SchemaColumnType(e, field[1]) \in SearchableTypes

SearchGroups == { k \in 1..Len(qb.wheres) : qb.wheres[k].operator = "search" }

ExpectedSearchTerms(e, search) ==
    LET valid == SelectSeq(search.fields, LAMBDA f : ValidForSearch(e, f))
    IN  [i \in 1..Len(valid) |->
            Term(AliasOfField(valid[i]), valid[i][Len(valid[i])],
                 IF search.caseSensitive THEN "LIKE" ELSE "ILIKE")]

ExpectedSearchValue(search) ==
    IF search.mode = "exact" THEN search.query ELSE "%" \o search.query \o "%"

WithoutSearch(o) == [o EXCEPT !.search = NoSearch]

\* C12: with a non-empty search query the built query holds exactly one
\* search group, the OR over exactly the declared search fields valid for
\* search, each compared with LIKE (caseSensitive) or ILIKE against the
\* query wrapped in % (unwrapped in exact mode), and its filter predicates
\* are those of the build without the search.
C12_OneSearchGroup ==
    (IsBuild /\ ent \in RegisteredEntities /\ opts.search.query # "") =>
        /\ Cardinality(SearchGroups) = 1
        /\ \A k \in SearchGroups :
              /\ qb.wheres[k].terms = ExpectedSearchTerms(ent, opts.search)
              /\ qb.wheres[k].params =
                    << Param("searchQuery", << ExpectedSearchValue(opts.search) >>) >>
        /\ SelectSeq(qb.wheres, LAMBDA w : w.operator # "search")
              = buildAdvancedQuery(ent, WithoutSearch(opts)).qb.wheres

----------------------------------------------------------------------------
(* C13 *)

\* the sort field passes sort validation: a plain field is a column of a
\* comparable type, a dotted one is a path the resolver accepts
PassesSortValidation(e, field) ==
    IF Len(field) > 1
    THEN resolvePath(e, field).valid /\ resolvePath(e, field).finalField # NoField
    ELSE /\ field[1] \in SchemaColumns(e)
         /\ SchemaColumnType(e, field[1]) \in SortableTypes

ExpectedOrderBys(e, sort) ==
    LET kept == SelectSeq(sort, LAMBDA x : PassesSortValidation(e, x.field))
    IN  [i \in 1..Len(kept) |->
            [alias |-> AliasOfField(kept[i].field),
             column |-> kept[i].field[Len(kept[i].field)],
             direction |-> kept[i].direction]]

\* C13: the ORDER BY list of the built query is exactly the input sort
\* entries whose field passes sort validation, in input order, each with
\* its own direction; an invalid entry removes nothing but itself.
C13_OrderByIsValidSubsequence ==
    IsBuild => qb.orderBys = ExpectedOrderBys(ent, opts.sort)

\* two invalid entries between two valid ones were dropped
C13_Witness ==
    /\ IsBuild
    /\ Len(opts.sort) = 4
    /\ Len(qb.orderBys) = 2
    /\ qb.orderBys[1] = [alias |-> "entity", column |-> "createdAt", direction |-> "DESC"]
    /\ qb.orderBys[2] = [alias |-> "entity", column |-> "email", direction |-> "ASC"]

----------------------------------------------------------------------------
(* C14 *)

MetadataCalls == {"getEntityMetadata", "getQueryCapabilities",
                  "validateFieldAccess", "resolvePath"}

\* the call that ran reaches getEntityMetadata for its entity
ReachesMetadata ==
    op \in MetadataCalls /\ (op = "resolvePath" => NonEmptyParts(path) # << >>)

\* C14: once the metadata of an entity type is cached, no getEntityMetadata,
\* getQueryCapabilities, validateFieldAccess or resolvePath call extracts it
\* again or derives its cached capabilities again, and the cached entries
\* stay as they are, until clearCache; the first call after clearCache
\* extracts again.
C14_ComputedOncePerType ==
    [][ /\ op' # "clearCache" =>
            \A e \in EntityClasses :
                /\ e \in DOMAIN metadataCache =>
                      /\ Event("extract", e) \notin Range(ran')
                      /\ e \in DOMAIN metadataCache'
                      /\ metadataCache'[e] = metadataCache[e]
                /\ e \in DOMAIN capabilitiesCache =>
                      /\ Event("derive", e) \notin Range(ran')
                      /\ e \in DOMAIN capabilitiesCache'
                      /\ capabilitiesCache'[e] = capabilitiesCache[e]
                /\ Cardinality({ k \in 1..Len(ran') : ran'[k].entity = e }) <= 2
        /\ (op = "clearCache" /\ ReachesMetadata' /\ ent' \in RegisteredEntities) =>
                Event("extract", ent') \in Range(ran') ]_vars

\* a validation answered from both caches: nothing was extracted or derived
C14_Witness ==
    /\ op = "validateFieldAccess"
    /\ ent = "User"
    /\ ran = << >>
    /\ "User" \in DOMAIN metadataCache
    /\ "User" \in DOMAIN capabilitiesCache

----------------------------------------------------------------------------
(* C15 *)

\* the schema's column types by class
TextLikeColumnTypes == {"varchar", "text"}
ComparableColumnTypes ==
    TextLikeColumnTypes \cup {"timestamp", "timestamp with time zone", "boolean"}

ColumnsOfType(e, types) ==
    { c \in SchemaColumns(e) : SchemaColumnType(e, c) \in types }

\* what the capabilities of e list, as sets
CapabilitySetsFit(e) ==
    LET c == capabilitiesCache[e]
    IN  /\ Range(c.filterable) = SchemaColumns(e)
        /\ Range(c.searchable) = ColumnsOfType(e, TextLikeColumnTypes)
        /\ Range(c.sortable) = ColumnsOfType(e, ComparableColumnTypes)
        /\ Range(c.relations) = SchemaRelations(e)

\* C15 as stated: filterable = all columns, searchable = the text-like
\* columns, sortable = the comparable-type columns, relations = all
\* relations, and searchable and sortable are each a strict subset of
\* filterable.
C15_StrictSubsets ==
    \A e \in DOMAIN capabilitiesCache :
        /\ CapabilitySetsFit(e)
        /\ Range(capabilitiesCache[e].searchable) \subseteq Range(capabilitiesCache[e].filterable)
        /\ Range(capabilitiesCache[e].searchable) # Range(capabilitiesCache[e].filterable)
        /\ Range(capabilitiesCache[e].sortable) \subseteq Range(capabilitiesCache[e].filterable)
        /\ Range(capabilitiesCache[e].sortable) # Range(capabilitiesCache[e].filterable)

\* C15 amended: the same sets, searchable and sortable each a subset of
\* filterable, not necessarily a strict one.
C15_Subsets ==
    \A e \in DOMAIN capabilitiesCache :
        /\ CapabilitySetsFit(e)
        /\ Range(capabilitiesCache[e].searchable) \subseteq Range(capabilitiesCache[e].filterable)
        /\ Range(capabilitiesCache[e].sortable) \subseteq Range(capabilitiesCache[e].filterable)

\* capabilities derived for an entity of text columns only and for one
\* with columns of every class
C15_Witness ==
    /\ {"Address", "Profile"} \subseteq DOMAIN capabilitiesCache
    /\ Range(capabilitiesCache["Address"].searchable)
          = Range(capabilitiesCache["Address"].filterable)
    /\ Range(capabilitiesCache["Profile"].sortable) = {"bio", "verified", "updatedAt"}

----------------------------------------------------------------------------
(* C16 *)

\* the field lacks the capability that the known operation asks for
LacksCapability(e, field, operation) ==
    \/ operation = "search" /\ field \notin ColumnsOfType(e, TextLikeColumnTypes)
    \/ operation = "sort" /\ field \notin ColumnsOfType(e, ComparableColumnTypes)
    \/ operation = "filter" /\ field \notin SchemaColumns(e)

Advisory == {"Unknown operation", "is primary key", "is not nullable"}

\* C16: validateFieldAccess never fails because of the operation name: an
\* operation other than search, filter, sort or select adds a warning and
\* is checked against no capability; warnings never make isValid false;
\* isValid is false exactly when the field does not exist, lacks the
\* capability of a known operation, or the metadata lookup throws.
C16_UnknownOperationOnlyWarns ==
    (op = "validateFieldAccess" /\ validation # << >>) =>
        LET field == validation[1].field
            operation == validation[1].operation
            r == validation[1].result
        IN  /\ r.isValid <=> ~ \/ ExtractThrows(ent)
                                \/ field \notin SchemaColumns(ent)
                                \/ LacksCapability(ent, field, operation)
            /\ r.isValid <=> r.errors = << >>
            /\ \A k \in 1..Len(r.warnings) : r.warnings[k][1] \in Advisory
            /\ (operation \notin KnownOperations /\ field \in SchemaColumns(ent)) =>
                  /\ r.isValid
                  /\ <<"Unknown operation", operation>> \in Range(r.warnings)
            /\ \A k \in 1..Len(r.errors) : r.errors[k][1] \notin Advisory

\* an unknown operation on a primary-key column: valid, with both warnings
C16_Witness ==
    /\ op = "validateFieldAccess" /\ validation # << >>
    /\ ent = "User"
    /\ validation[1].field = "id" /\ validation[1].operation = "export"
    /\ validation[1].result.isValid
    /\ Len(validation[1].result.warnings) = 2

----------------------------------------------------------------------------
(* C17 *)

IsFindAll == op = "findAll" /\ request # << >>
HasFilterParam == IsFindAll /\ request[1].query.filter # NotSet
FilterParts == Split(request[1].query.filter[1], ":")

\* the request's filter parameter is field:value with both parts given
IsBareFilter ==
    /\ HasFilterParam
    /\ Len(FilterParts) = 2
    /\ Len(Trim(FilterParts[1])) > 0
    /\ Len(Trim(FilterParts[2])) > 0

\* C17: a filter parameter of the bare form field:value is parsed into the
\* one condition {field, operator eq, value}, and when the request is
\* executed the query holds the equality predicate entity.field = value.
C17_BareFilterIsEq ==
    IsBareFilter =>
        /\ request[1].options.filters =
              << DynFilter(Segments(Trim(FilterParts[1])), << "eq" >>, FALSE,
                           << Trim(FilterParts[2]) >>) >>
        /\ outcome = "returned" =>
              \E k \in 1..Len(qb.wheres) :
                  qb.wheres[k] = Pred("entity", Trim(FilterParts[1]), "eq", "=",
                                      << Param("filter_0", << Trim(FilterParts[2]) >>) >>)

----------------------------------------------------------------------------
(* C18 *)

MultiValuedOperators == {"in", "nin", "between", "dateRange"}

\* the request's filter parameter is field:operator:values with a
\* multi-valued operator, on a field the validation lets through
IsMultiValuedFilter ==
    /\ HasFilterParam
    /\ Len(FilterParts) = 3
    /\ FilterParts[2] \in MultiValuedOperators
    /\ outcome = "returned"

FilterValueList == Split(FilterParts[3], ",")

\* C18: a filter parameter field:operator:v1,v2,... with a multi-valued
\* operator is parsed into a condition that carries the list of the
\* comma-separated values; in and nin compile to a membership predicate
\* over those values, between and dateRange (two values) to a range
\* predicate with the first value as lower and the second as upper bound.
C18_MultiValuedFilter ==
    IsMultiValuedFilter =>
        /\ request[1].options.filters =
              << DynFilter(Segments(FilterParts[1]), << FilterParts[2] >>, TRUE,
                           FilterValueList) >>
        /\ \E k \in 1..Len(qb.wheres) :
              LET w == qb.wheres[k]
              IN  /\ w.terms[1].alias = "entity"
                  /\ w.terms[1].column = FilterParts[1]
                  /\ w.operator = FilterParts[2]
                  /\ IF FilterParts[2] \in {"in", "nin"}
                     THEN w.params = << ListParam("filter_0", FilterValueList) >>
                     ELSE /\ Len(FilterValueList) = 2
                          /\ w.params =
                               << Param("filter_0_start", << FilterValueList[1] >>),
                                  Param("filter_0_end", << FilterValueList[2] >>) >>

----------------------------------------------------------------------------
(* C19 *)

EmptyBuilder == [qb |-> createQueryBuilder, log |-> << >>]

\* The condition, compiled on its own, contributes no predicate / no
\* order clause / no search term: it is dropped.
FilterDropped(e, f) == applyFilter(EmptyBuilder, e, f, 0).qb.wheres = << >>
SortDropped(e, srt) == applySort(EmptyBuilder, e, srt).qb.orderBys = << >>
HavingDropped(e, h) == applyHavingOne(EmptyBuilder, e, h, 0).qb.havings = << >>
SearchFieldDropped(e, search, i) ==
    searchConditionsFrom(EmptyBuilder, e,
                         [search EXCEPT !.fields = << search.fields[i] >>],
                         1, << >>).conds = << >>

WithoutSort(o, i) == [o EXCEPT !.sort = RemoveAt(@, i)]
WithoutHaving(o, i) == [o EXCEPT !.having = RemoveAt(@, i)]
WithoutSearchField(o, i) == [o EXCEPT !.search.fields = RemoveAt(@, i)]

SameQuery(e, o) ==
    EraseParamNames(qb) = EraseParamNames(buildAdvancedQuery(e, o).qb)

\* C19: a filter, sort, search or having condition that is dropped leaves
\* the built query unchanged: the query is the one built from the options
\* without that condition (same joins, predicates, order clauses; bound
\* parameters compared by value, their names follow the positions).
C19_DroppedLeavesQueryUnchanged ==
    IsBuild =>
        /\ \A i \in 1..Len(opts.filters) :
              FilterDropped(ent, opts.filters[i]) =>
                  SameQuery(ent, WithoutFilter(opts, i))
        /\ \A i \in 1..Len(opts.sort) :
              SortDropped(ent, opts.sort[i]) => SameQuery(ent, WithoutSort(opts, i))
        /\ \A i \in 1..Len(opts.having) :
              HavingDropped(ent, opts.having[i]) =>
                  SameQuery(ent, WithoutHaving(opts, i))
        /\ \A i \in 1..Len(opts.search.fields) :
              SearchFieldDropped(ent, opts.search, i) =>
                  SameQuery(ent, WithoutSearchField(opts, i))

----------------------------------------------------------------------------
(* C20 *)

\* The alias of step k of a relation path: its first k segments joined by "_"
PathAlias(p, k) == JoinWith(SubSeq(p, 1, k), "_")

\* The join of step k of a relation path
IsJoinStep(j, p, k) ==
    /\ j.parent = (IF k = 1 THEN "entity" ELSE PathAlias(p, k - 1))
    /\ j.property = p[k]
    /\ j.alias = PathAlias(p, k)

HasJoinSteps(p) ==
    \A k \in 1..Len(p) : \E n \in 1..Len(qb.joins) : IsJoinStep(qb.joins[n], p, k)

Dotted(S) == { f \in S : Len(f) > 1 }

\* The relation paths the options name: the relations to load and the
\* relation part of every dotted field
RelationPathsOf(o) ==
    Range(o.relations.relations)
    \cup { Front(f) : f \in Dotted({ o.filters[i].field : i \in 1..Len(o.filters) }
                              \cup { o.sort[i].field : i \in 1..Len(o.sort) }
                              \cup { o.having[i].field : i \in 1..Len(o.having) }
                              \cup Range(o.search.fields)) }

\* C20: every join of the built query is a step of a relation path of the
\* options, aliased by the path's segments up to and including that step
\* joined by "_"; a relation to load and a compiled condition on a dotted
\* field have the joins of all the steps of their path; the predicate or
\* order clause on the terminal column uses the alias of the last step; and
\* joins of the same step (same parent, same relation) have the same alias.
C20_AliasIsPathJoinedByUnderscore ==
    IsBuild =>
        /\ \A n \in 1..Len(qb.joins) :
              \E p \in RelationPathsOf(opts) : \E k \in 1..Len(p) :
                  IsJoinStep(qb.joins[n], p, k)
        /\ \A p \in Range(opts.relations.relations) : HasJoinSteps(p)
        /\ \A i \in 1..Len(opts.filters) :
              LET f == opts.filters[i]
              IN  (Len(f.field) > 1 /\ ~FilterDropped(ent, f)) =>
                      /\ HasJoinSteps(Front(f.field))
                      /\ \E k \in 1..Len(qb.wheres) :
                            /\ qb.wheres[k].operator = f.operator
                            /\ qb.wheres[k].terms[1].alias =
                                  PathAlias(Front(f.field), Len(f.field) - 1)
                            /\ qb.wheres[k].terms[1].column = f.field[Len(f.field)]
        /\ \A i \in 1..Len(opts.sort) :
              LET srt == opts.sort[i]
              IN  (Len(srt.field) > 1 /\ ~SortDropped(ent, srt)) =>
                      /\ HasJoinSteps(Front(srt.field))
                      /\ \E k \in 1..Len(qb.orderBys) :
                            /\ qb.orderBys[k].alias =
                                  PathAlias(Front(srt.field), Len(srt.field) - 1)
                            /\ qb.orderBys[k].column = srt.field[Len(srt.field)]
        /\ \A m, n \in 1..Len(qb.joins) :
              (qb.joins[m].parent = qb.joins[n].parent
                 /\ qb.joins[m].property = qb.joins[n].property)
              => qb.joins[m].alias = qb.joins[n].alias

\* The two-step path profile.address was joined to load its relations, and
\* a predicate was compiled on the terminal column of a two-step path
C20_Witness ==
    /\ IsBuild
    /\ <<"profile", "address">> \in Range(opts.relations.relations)
    /\ \E n \in 1..Len(qb.joins) :
          /\ qb.joins[n].parent = "profile"
          /\ qb.joins[n].property = "address"
          /\ qb.joins[n].alias = "profile_address"
    /\ Len(opts.filters) = 1
    /\ Len(opts.filters[1].field) = 3
    /\ ~FilterDropped(ent, opts.filters[1])
    /\ Len(qb.wheres) = 1
    /\ qb.wheres[1].terms[1].alias = "profile_profile"

----------------------------------------------------------------------------
(* C21 *)

RootAlias == "entity"

\* The relation chain of a join: the alias it starts from and the relation
\* it follows (the alias it starts from stands for the chain up to there)
ChainOf(j) == << j.parent, j.property >>

\* C21: within one built query two joins of different relation chains never
\* have the same alias, and no join has the root alias "entity".
C21_AliasUniquePerChain ==
    (IsBuild \/ IsExecute) =>
        /\ \A m, n \in 1..Len(qb.joins) :
              qb.joins[m].alias = qb.joins[n].alias
                  => ChainOf(qb.joins[m]) = ChainOf(qb.joins[n])
        /\ \A n \in 1..Len(qb.joins) : qb.joins[n].alias # RootAlias

----------------------------------------------------------------------------
(* C22 *)

\* C22: every field of the built query's select list and of its group-by
\* list is a column of the entity; an entry naming no column is not emitted.
C22_SelectAndGroupByAreColumns ==
    IsBuild =>
        /\ \A k \in 1..Len(qb.selects) : qb.selects[k].column \in SchemaColumns(ent)
        /\ \A k \in 1..Len(qb.groupBys) : qb.groupBys[k].column \in SchemaColumns(ent)

----------------------------------------------------------------------------
(* C23 *)

\* The entity a join of the query starts from: the root entity for the
\* root alias, otherwise the target of the join that introduced the parent
\* alias, << >> when that join follows no declared relation.
RECURSIVE JoinOwner(_, _)
JoinOwner(q, n) ==
    LET j == q.joins[n]
        before == { m \in 1..(n - 1) : q.joins[m].alias = j.parent }
    IN  IF j.parent = q.alias THEN << ent >>
        ELSE IF before = {} THEN << >>
        ELSE LET m == CHOOSE x \in before : \A y \in before : y <= x
                 owner == JoinOwner(q, m)
             IN  IF owner # << >> /\ q.joins[m].property \in SchemaRelations(owner[1])
                 THEN << SchemaTarget(owner[1], q.joins[m].property) >>
                 ELSE << >>

FollowsDeclaredRelation(q, n) ==
    /\ JoinOwner(q, n) # << >>
    /\ q.joins[n].property \in SchemaRelations(JoinOwner(q, n)[1])

\* C23: every join of the built query follows a relation declared in the
\* metadata of the entity it starts from, whether it comes from the
\* relations to load or from a filter, sort, search or having path.
C23_JoinsFollowDeclaredRelations ==
    IsBuild => \A n \in 1..Len(qb.joins) : FollowsDeclaredRelation(qb, n)

----------------------------------------------------------------------------
(* C24 *)

\* The entity that owns the columns read through an alias of the query:
\* the root entity for the root alias, the target of the declared relation
\* that the join of that alias follows, << >> when there is none.
AliasOwner(q, a) ==
    LET named == { n \in 1..Len(q.joins) : q.joins[n].alias = a }
    IN  IF a = q.alias THEN << ent >>
        ELSE IF named = {} THEN << >>
        ELSE LET n == CHOOSE x \in named : \A y \in named : y <= x
             IN  IF FollowsDeclaredRelation(q, n)
                 THEN << SchemaTarget(JoinOwner(q, n)[1], q.joins[n].property) >>
                 ELSE << >>

CapabilitiesOfOwner(owner) == buildQueryCapabilities(extractEntityMetadata(owner))

\* The column read through the alias is in the capability set of the
\* operation for the entity that owns it
Capable(q, a, c, operation) ==
    LET owner == AliasOwner(q, a)
    IN  /\ owner # << >>
        /\ owner[1] \in RegisteredEntities
        /\ c \in Range(CASE operation = "filter" -> CapabilitiesOfOwner(owner[1]).filterable
                         [] operation = "sort"   -> CapabilitiesOfOwner(owner[1]).sortable
                         [] operation = "search" -> CapabilitiesOfOwner(owner[1]).searchable)

FilterTermsCapable ==
    \A k \in 1..Len(qb.wheres) :
        qb.wheres[k].operator # "search" =>
            Capable(qb, qb.wheres[k].terms[1].alias, qb.wheres[k].terms[1].column,
                    "filter")
SortTermsCapable ==
    \A k \in 1..Len(qb.orderBys) :
        Capable(qb, qb.orderBys[k].alias, qb.orderBys[k].column, "sort")
SearchTermsCapable ==
    \A k \in 1..Len(qb.wheres) :
        qb.wheres[k].operator = "search" =>
            \A t \in 1..Len(qb.wheres[k].terms) :
                Capable(qb, qb.wheres[k].terms[t].alias,
                        qb.wheres[k].terms[t].column, "search")

\* C24: a field is in the where, order or search clause of the built query
\* only if it is in the filterable, sortable or searchable set of the
\* entity that owns the column, for dotted paths as for plain fields.
C24_OnlyCapableFieldsEnter ==
    IsBuild => FilterTermsCapable /\ SortTermsCapable /\ SearchTermsCapable

----------------------------------------------------------------------------
(* C25 *)

HavingOperators == {"eq", "gt", "gte", "lt", "lte"}

\* The field names a column of the entity, or a column reached over
\* declared relations
KnownToSchema(e, field) ==
    IF Len(field) = 1 THEN field[1] \in SchemaColumns(e)
    ELSE SchemaColumnPath(e, field, 1)

\* The HAVING clause holds the predicate of the i-th having condition
HavingPresent(i) ==
    \E k \in 1..Len(qb.havings) :
        /\ qb.havings[k].terms[1].alias = AliasOfField(opts.having[i].field)
        /\ qb.havings[k].terms[1].column =
              opts.having[i].field[Len(opts.having[i].field)]
        /\ qb.havings[k].operator = opts.having[i].operator
        /\ qb.havings[k].params =
              << Param("having_" \o ToString(i - 1), opts.having[i].value) >>

\* The conditions of the having list that every supported operator and
\* known field makes valid are all in the HAVING clause
C25_AllValidHavingsPresent ==
    IsBuild =>
        \A i \in 1..Len(opts.having) :
            (opts.having[i].operator \in HavingOperators
               /\ KnownToSchema(ent, opts.having[i].field)) => HavingPresent(i)

\* A having condition on a field unknown to the entity is dropped
C25_UnknownHavingDropped ==
    IsBuild =>
        \A i \in 1..Len(opts.having) :
            UnknownToEntity(ent, opts.having[i].field) => ~HavingPresent(i)

\* C25: of a having list, every condition with a supported operator on a
\* known field is present in the HAVING clause of the built query (the
\* clause is their conjunction), and a condition on a field unknown to the
\* entity is dropped.
C25_HavingCompiledLikeFilters ==
    C25_AllValidHavingsPresent /\ C25_UnknownHavingDropped

----------------------------------------------------------------------------
(* C26 *)

\* The deterministic derivation of an entity's capabilities from its metadata
DerivedCapabilities(e) == buildQueryCapabilities(extractEntityMetadata(e))

\* C26: under every interleaving of getQueryCapabilities calls, every call
\* that returns, returns the derivation from its entity's metadata, and
\* every entry of the capabilities cache holds the derivation for its key.
C26_RacingCallsAgree ==
    /\ \A c \in Callers :
          (calls[c].pc = "done" /\ calls[c].outcome = "returned") =>
              calls[c].value = << DerivedCapabilities(calls[c].entity) >>
    /\ \A e \in DOMAIN capabilitiesCache :
          capabilitiesCache[e] = DerivedCapabilities(e)

\* Two calls for the same entity both missed the cache, both computed and
\* both wrote
C26_Witness ==
    /\ \A c \in Callers : calls[c].pc = "done" /\ calls[c].wrote
    /\ calls[1].entity = calls[2].entity
    /\ calls[1].entity \in DOMAIN capabilitiesCache

----------------------------------------------------------------------------
(* C27 *)

IsValidated ==
    /\ op \in {"findAll", "validateQueryOptions"}
    /\ request # << >>
    /\ request[1].validation.isValid

\* The options the executor compiles for the validated options, and the
\* query executed for them
ValidatedAdvancedOptions == mapDynamicToAdvancedOptions(request[1].options, TRUE)
ExecutedQuery == buildAdvancedQuery(ent, ValidatedAdvancedOptions).qb

FilterYieldsPredicate(q, f, i) ==
    \E k \in 1..Len(q.wheres) :
        /\ q.wheres[k].operator = f.operator
        /\ q.wheres[k].terms[1].alias = AliasOfField(f.field)
        /\ q.wheres[k].terms[1].column = f.field[Len(f.field)]
        /\ \A n \in 1..Len(q.wheres[k].params) :
              SubSeq(q.wheres[k].params[n].name, 1, Len("filter_" \o ToString(i - 1)))
                  = "filter_" \o ToString(i - 1)

SortYieldsOrder(q, srt) ==
    \E k \in 1..Len(q.orderBys) :
        /\ q.orderBys[k].alias = AliasOfField(srt.field)
        /\ q.orderBys[k].column = srt.field[Len(srt.field)]
        /\ q.orderBys[k].direction = srt.direction

SearchFieldIsDisjunct(q, field) ==
    \E k \in 1..Len(q.wheres) :
        /\ q.wheres[k].operator = "search"
        /\ \E t \in 1..Len(q.wheres[k].terms) :
              /\ q.wheres[k].terms[t].alias = AliasOfField(field)
              /\ q.wheres[k].terms[t].column = field[Len(field)]

RelationIsJoined(q, p) ==
    \A k \in 1..Len(p) : \E n \in 1..Len(q.joins) : IsJoinStep(q.joins[n], p, k)

NothingDropped(q, o) ==
    /\ \A i \in 1..Len(o.filters) :
          ArityFits(o.filters[i]) => FilterYieldsPredicate(q, o.filters[i], i)
    /\ \A i \in 1..Len(o.sort) : SortYieldsOrder(q, o.sort[i])
    /\ o.search.query # "" =>
          \A i \in 1..Len(o.search.fields) :
              SearchFieldIsDisjunct(q, o.search.fields[i])
    /\ \A i \in 1..Len(o.relations.relations) :
          RelationIsJoined(q, o.relations.relations[i])

\* C27: when validateQueryOptions finds the options valid, the query
\* executed for them drops no field: every filter with a supported
\* operator and fitting arity has its predicate, every sort entry its order
\* clause, every search field is a disjunct of the search group (when there
\* is a search query), every included relation is joined; and findAll
\* executes that query.
C27_ValidOptionsDropNothing ==
    IsValidated =>
        /\ NothingDropped(ExecutedQuery, ValidatedAdvancedOptions)
        /\ op = "findAll" =>
              /\ outcome = "returned"
              /\ opts = ValidatedAdvancedOptions
              /\ NothingDropped(qb, opts)

\* A request through findAll with a filter, a sort entry, a search and a
\* relation to include passed the validation and was executed
C27_Witness ==
    /\ IsValidated
    /\ op = "findAll"
    /\ Len(opts.filters) = 1 /\ Len(opts.sort) = 1
    /\ opts.search.query = "john"
    /\ Len(opts.relations.relations) = 1
    /\ Len(qb.wheres) = 2 /\ Len(qb.orderBys) = 1 /\ Len(qb.joins) = 1

----------------------------------------------------------------------------
(* C28 *)

IsCount == op = "count" /\ counted # << >>

\* C28: count(options) returns the number of rows matching the options,
\* with or without a pagination block in them, and the total that
\* executeQuery reported to it is that number.
C28_CountIsMatchingRows ==
    IsCount =>
        /\ counted[1].returned = counted[1].matching
        /\ counted[1].given => counted[1].total = << counted[1].matching >>

----------------------------------------------------------------------------
(* C29 *)

\* what validateRefreshToken would answer for the token now
Accepted(t) == validateRefreshToken(redis, t, clock) # << >>

StoredFor(userId) == RedisGet(redis, refreshTokenKey(userId), clock)

RefreshReturnedPair(c) ==
    /\ sessions[c].pc = "done"
    /\ sessions[c].op = "refreshAccessToken"
    /\ sessions[c].result = "pair"

LoggedOut(c) ==
    /\ sessions[c].pc = "done"
    /\ sessions[c].op = "revokeRefreshToken"

\* C29: when refreshAccessToken(t) has returned a pair, the refresh token of
\* the pair is the one stored for the user and validateRefreshToken accepts
\* it, and t is not accepted, then or at any later time; when logout has
\* returned, no refresh token issued to the user is accepted.
C29_RefreshRotatesAndLogoutRevokes ==
    /\ \A c \in Clients :
        RefreshReturnedPair(c) =>
            /\ StoredFor(sessions[c].payload[1].sub)
                    = << sessions[c].pair[1].refreshToken >>
            /\ Accepted(sessions[c].pair[1].refreshToken)
            /\ ~Accepted(sessions[c].presented[1])
    /\ \A t \in spent : ~Accepted(t)
    /\ \A c \in Clients :
        LoggedOut(c) =>
            \A t \in issued :
                t.sub = sessions[c].payload[1].sub => ~Accepted(t)

----------------------------------------------------------------------------
(* C30 *)

RefreshedWith(c, t) ==
    /\ sessions[c].pc = "done"
    /\ sessions[c].op = "refreshAccessToken"
    /\ sessions[c].presented = << t >>

\* C30: when the refreshAccessToken calls of two clients that presented the
\* same refresh token have both returned, at most one of them returned a
\* pair, and the refresh token stored for the user is the one of that pair.
C30_RefreshTokenIsSingleUse ==
    \A t \in Presentable :
        (\A c \in Clients : RefreshedWith(c, t)) =>
            /\ Cardinality({c \in Clients : sessions[c].result = "pair"}) <= 1
            /\ \A c \in Clients :
                sessions[c].result = "pair" =>
                    StoredFor(sessions[c].payload[1].sub)
                        = << sessions[c].pair[1].refreshToken >>

====
